---- MODULE Spec2Model ----
(***************************************************************************)
(* Newsletter service: subscriber lifecycle (subscribe / confirm) and the  *)
(* idempotent newsletter publication pipeline.                             *)
(*                                                                         *)
(* Every HTTP request is a process; its steps are cut at the await points  *)
(* of its handler (one database statement or one email POST per step).     *)
(* The relational store is Postgres at READ COMMITTED: a row carries the   *)
(* transaction that inserted it (xmin, 0 once committed), the transaction  *)
(* that deleted it (xmax) and the transaction that holds its row lock.     *)
(* A statement that has to wait for another transaction is not enabled     *)
(* until that transaction commits or rolls back.  The transaction of       *)
(* request r has id r.                                                     *)
(*                                                                         *)
(* Strings are sequences of one-character strings.  Random values (uuids,  *)
(* tokens) are drawn per request: the value drawn by request r is a        *)
(* function of r, so two draws never collide.                              *)
(***************************************************************************)
EXTENDS Integers, Sequences, FiniteSets, TLC

\* Number of HTTP requests issued in one behaviour.
MaxRequests == 3

\* Number of publish requests issued in one behaviour.
MaxPublish == 2

\* Number of invite requests issued in one behaviour.
MaxInvites == 2

\* Number of registration requests (form and POST) issued in one behaviour.
MaxRegistrations == 3

\* Number of subscriber requests in one behaviour in which the database and
\* the template engine may fail.
MaxFaultyRequests == 2

\* Number of calls of EmailClient::send_email in one behaviour.
MaxCalls == 3

\* Number of token strings parsed in one behaviour.
MaxParses == 2

-----------------------------------------------------------------------------
(* Strings *)

Repeat(c, n) == [i \in 1..n |-> c]

Str2(a, b) == <<a, b>>

AsciiLetters == {"a", "b", "c", "d", "e", "f", "g", "h", "k", "l", "x", "Z"}

AsciiDigits == {"0", "1", "2", "3", "4", "5", "6", "7", "8", "9"}

\* char::is_ascii_digit
is_ascii_digit(c) == c \in AsciiDigits

Whitespace == {" "}

\* A character outside ASCII: U+00E9, two bytes in UTF-8.
NonAscii == {"U+00E9"}

\* char::len_utf8
len_utf8(c) == IF c \in NonAscii THEN 2 ELSE 1

\* str::len: the length in bytes.
str_len(s) == Len(s) + Cardinality({i \in 1..Len(s) : len_utf8(s[i]) = 2})

\* char::is_ascii_alphanumeric
is_ascii_alphanumeric(c) == c \in AsciiLetters \cup AsciiDigits

\* str::trim().is_empty()
trim_is_empty(s) == \A i \in 1..Len(s) : s[i] \in Whitespace

\* rand::distributions::Alphanumeric: the characters the sampler can return
\* (those the model draws from).
Alphanumeric == <<"a", "b", "c", "d", "e", "f", "g", "h", "Z", "7">>

-----------------------------------------------------------------------------
(* Identity value types *)

\* validator::validate_email: one "@" with a non-empty local part and a
\* non-empty domain.
validate_email(s) ==
    /\ Cardinality({i \in 1..Len(s) : s[i] = "@"}) = 1
    /\ s[1] # "@"
    /\ s[Len(s)] # "@"

Email_parse(s) == validate_email(s)

SubscriberEmail_parse(s) == Email_parse(s)

FORBIDDEN_CHARS == {"/", "(", ")", "\"", "<", ">", "\\", "{", "}"}

NameMaxGraphemes == 256

\* A character that extends the grapheme cluster of the character before
\* it: U+0301, the combining acute accent.
Extend == {"U+0301"}

\* UnicodeSegmentation::graphemes(true): the number of grapheme clusters;
\* a cluster starts at the first character and at every character that does
\* not extend the one before.
graphemes(s) == Cardinality({i \in 1..Len(s) : i = 1 \/ s[i] \notin Extend})

SubscriberName_parse_Chars(s) ==
    IF trim_is_empty(s) THEN "Empty"
    ELSE IF Len(s) > NameMaxGraphemes THEN "TooLong"
    ELSE IF \E i \in 1..Len(s) : s[i] \in FORBIDDEN_CHARS THEN "InvalidCharacters"
    ELSE "Ok"

\* SubscriberName::parse: "Ok" or the error variant.
SubscriberName_parse(s) ==
    IF trim_is_empty(s) THEN "Empty"
    ELSE IF graphemes(s) > NameMaxGraphemes THEN "TooLong"
    ELSE IF \E i \in 1..Len(s) : s[i] \in FORBIDDEN_CHARS THEN "InvalidCharacters"
    ELSE "Ok"

TokenLength == 30

SubscriptionToken_parse_NonEmpty(s) == ~trim_is_empty(s)

\* SubscriptionToken::parse
SubscriptionToken_parse(s) ==
    LET is_empty_or_whitespace == trim_is_empty(s)
        has_invalid_size == str_len(s) # TokenLength
        contains_forbidden_chars == \E i \in 1..Len(s) : ~is_ascii_alphanumeric(s[i])
    IN  ~(is_empty_or_whitespace \/ has_invalid_size \/ contains_forbidden_chars)

Token_parse_AnyChars(s) == ~(trim_is_empty(s) \/ str_len(s) # TokenLength)

\* Token::parse
Token_parse(s) ==
    LET is_empty_or_whitespace == trim_is_empty(s)
        has_invalid_size == str_len(s) # TokenLength
        contains_forbidden_chars == \E i \in 1..Len(s) : ~is_ascii_alphanumeric(s[i])
    IN  ~(is_empty_or_whitespace \/ has_invalid_size \/ contains_forbidden_chars)

InvitationToken_parse(s) == Token_parse(s)

CodeLength == 6

\* validator::HasLen::length of a String: the number of characters.
length(s) == Len(s)

ValidationCode_parse_AtMost(s) ==
    length(s) <= CodeLength /\ \A i \in 1..Len(s) : is_ascii_digit(s[i])

\* ValidationCode::parse
ValidationCode_parse(s) ==
    length(s) = CodeLength /\ \A i \in 1..Len(s) : is_ascii_digit(s[i])

CollaboratorEmail_parse(s) == Email_parse(s)

\* TryFrom<CollaboratorFormData> for NewCollaborator
NewCollaborator_try_from(email) == CollaboratorEmail_parse(email)

PasswordMinLength == 8

PasswordMaxLength == 64

KeyMaxLength == 50

IdempotencyKey_try_from_Off(s) ==
    IF Len(s) = 0 THEN FALSE
    ELSE IF Len(s) > KeyMaxLength THEN FALSE
    ELSE TRUE

\* IdempotencyKey::try_from: TRUE iff Ok
IdempotencyKey_try_from(s) ==
    IF Len(s) = 0 THEN FALSE
    ELSE IF Len(s) >= KeyMaxLength THEN FALSE
    ELSE TRUE

\* TryFrom<FormData> for NewSubscriber
NewSubscriber_try_from(email, name) ==
    SubscriberEmail_parse(email) /\ SubscriberName_parse(name) = "Ok"

-----------------------------------------------------------------------------
(* Values *)

GeneratedTokenLength == 30

\* One sample short.
generate_subscription_token_Short(n) == Repeat(Alphanumeric[n], GeneratedTokenLength - 1)

\* generate_subscription_token: 30 samples of Alphanumeric; n is the draw.
generate_subscription_token(n) == Repeat(Alphanumeric[n], GeneratedTokenLength)

GeneratedInvitationTokenLength == 30

\* generate_invitation_token: 30 samples of Alphanumeric; n is the draw.
generate_invitation_token(n) == Repeat(Alphanumeric[n], GeneratedInvitationTokenLength)

\* Uniform::new_inclusive(0, 9) through char::from_digit(d, 10): the digits
\* the sampler of the validation code can return.
Uniform09 == <<"0", "1", "2", "3", "4", "5", "6", "7", "8", "9">>

GeneratedCodeLength == 6

\* One sample short.
generate_validation_code_Short(n) ==
    Repeat(Uniform09[((n - 1) % Len(Uniform09)) + 1], GeneratedCodeLength - 1)

\* generate_validation_code: 6 samples of 0..=9; n is the draw.  Two draws
\* may give the same code.
generate_validation_code(n) ==
    Repeat(Uniform09[((n - 1) % Len(Uniform09)) + 1], GeneratedCodeLength)

InvitePath == "/collaborator?invitation_token="

\* build_collaborator_invitation_template: the invitation link
build_invitation_link(invitation_token) ==
    [path |-> InvitePath, invitation_token |-> invitation_token]

\* Uuid::new_v4 drawn by request r.
new_v4(r) == r

ConfirmPath == "/subscriptions/confirm?subscription_token="

\* build_confirmation_email_template: the link the rendered bodies carry.
build_confirmation_link(subscription_token) ==
    [path |-> ConfirmPath, subscription_token |-> subscription_token]

NoLink == [path |-> "", subscription_token |-> <<>>]

Response(status) == [status |-> status, headers |-> <<>>, body |-> ""]

NoResponse == Response(0)

see_other(location) ==
    [status |-> 303, headers |-> <<Str2("location", location)>>, body |-> ""]

-----------------------------------------------------------------------------
(* State *)

VARIABLES
    subscriptions,        \* table subscriptions
    subscription_tokens,  \* table subscription_tokens
    idempotency,          \* table idempotency
    requests,             \* the HTTP requests issued so far, in order of arrival
    invitation_tokens,    \* table invitation_tokens
    users,                \* table users
    calls                 \* the calls made to a function on its own, with their results

vars == <<subscriptions, subscription_tokens, idempotency, requests,
          invitation_tokens, users, calls>>

EmailA == <<"a", "@", "x">>

EmailB == <<"b", "@", "x">>

\* A stored address that is no email address (a row written before the
\* address was validated on the way in).
EmailLegacy == <<"b", "a", "d">>

NameLeGuin == <<"l", "e">>

\* The name the subscribers of the seed database subscribed with.
NameStored == <<"g", "u">>

SeedEmails == <<EmailA, EmailB>>

\* The subscribe forms clients send: two valid ones, one with an invalid
\* email, one with an invalid name.
SubscribeForms ==
    {<<EmailA, NameLeGuin>>, <<EmailB, NameLeGuin>>, <<EmailLegacy, NameLeGuin>>,
     <<EmailA, <<>> >>}

Title == "issue"

\* Idempotency keys a client supplies: empty, shortest, longest accepted,
\* shortest rejected.
FormKeys == {Repeat("k", n) : n \in {0, 1, KeyMaxLength - 1, KeyMaxLength}}

\* The publish requests clients send: every key from the first user, and the
\* longest accepted key from the second user too.
PublishForms ==
    {<<"u1", k>> : k \in FormKeys} \cup {<<"u2", Repeat("k", KeyMaxLength - 1)>>}

\* The responses the email provider gives to one POST.
GatewayOutcomes == {"2xx", "non2xx", "timeout"}

\* What the provider would answer to a first POST and to a second one.
ProviderAnswers == GatewayOutcomes \X GatewayOutcomes

\* The token drawn for the i-th seed subscriber.
SeedToken(i) == generate_subscription_token(Len(Alphanumeric) + 1 - i)

MalformedToken == <<"\"", "@", "#", "$", "$", "&", "/", "\\">>

SubscriptionRow(id, email, name, at, status, xmin) ==
    [id |-> id, email |-> email, name |-> name, subscribed_at |-> at,
     status |-> status, xmin |-> xmin, lock |-> 0, new_status |-> status]

TokenRow(token, subscriber_id, xmin) ==
    [subscription_token |-> token, subscriber_id |-> subscriber_id,
     xmin |-> xmin, xmax |-> 0]

\* A row of idempotency; response_status_code 0 is NULL.
IdempotencyRow(user_id, key, xmin) ==
    [user_id |-> user_id, idempotency_key |-> key, response_status_code |-> 0,
     response_headers |-> <<>>, response_body |-> "", xmin |-> xmin]

Request(kind) ==
    [kind |-> kind, pc |-> "done",
     email |-> <<>>, name |-> <<>>,            \* subscribe form
     subscription_token |-> <<>>,              \* confirm parameter, or the token mailed
     user_id |-> "", idempotency_key |-> <<>>, \* publish: session user and form key
     invitation_token |-> <<>>,                \* invite: the token drawn; register: form
     validation_code |-> <<>>,                 \* invite: the code drawn; register: form
     username |-> "", password |-> <<>>,       \* register form
     missing |-> {},                           \* the form fields the request lacks
     subscriber_id |-> 0,
     subscription_state |-> "None",            \* SubscriptionState
     fetched |-> FALSE,                        \* publish: get_confirmed_subscribers has run
     subscribers |-> <<>>,                     \* publish: the rows fetched, in fetch order
     sent |-> <<>>,                            \* emails the provider accepted, in order
     posts |-> 0,                              \* POSTs issued to the provider
     gateway_failed |-> FALSE,                 \* a POST of this request failed
     waited_on |-> 0,                          \* the transaction this request waited for
     saved |-> FALSE,                          \* publish: this request ran save_response
     response |-> NoResponse]

\* The databases the server is started against: each seed address is
\* absent, pending with its token, or confirmed without one; the legacy row
\* is there or not.
SeedStatus == {"absent", "pending_confirmation", "confirmed"}

Seeds == [1..Len(SeedEmails) -> SeedStatus] \X BOOLEAN

SeedSubscriptions(f, legacy) ==
    {SubscriptionRow(0 - i, SeedEmails[i], NameStored, 0, f[i], 0) :
        i \in {j \in 1..Len(SeedEmails) : f[j] # "absent"}}
    \cup (IF legacy
          THEN {SubscriptionRow(0 - (Len(SeedEmails) + 1), EmailLegacy, NameLeGuin, 0,
                                "confirmed", 0)}
          ELSE {})

SeedTokens(f) ==
    {TokenRow(SeedToken(i), 0 - i, 0) :
        i \in {j \in 1..Len(SeedEmails) : f[j] = "pending_confirmation"}}

InvitationRow(invitation_token, validation_code, xmin) ==
    [invitation_token |-> invitation_token, validation_code |-> validation_code,
     xmin |-> xmin, xmax |-> 0]

\* A row of users (the password hash is left out).
UserRow(user_id, username, role, xmin) ==
    [user_id |-> user_id, username |-> username, role |-> role, xmin |-> xmin]

\* The users the server is started with: an admin, and a collaborator who
\* registered earlier.
SeedUsers == {UserRow("u1", "admin", "admin", 0), UserRow("u2", "ursula", "collaborator", 0)}

\* get_user_role: SELECT role FROM users WHERE user_id = $1 (on the pool);
\* login stores the result in the session.
get_user_role(t, user_id) ==
    LET row == CHOOSE x \in t : x.user_id = user_id /\ x.xmin = 0 IN row.role

InitDatabase(seeds) ==
    /\ \E seed \in seeds :
        /\ subscriptions = SeedSubscriptions(seed[1], seed[2])
        /\ subscription_tokens = SeedTokens(seed[1])
    /\ idempotency = {}
    /\ requests = <<>>
    /\ invitation_tokens = {}
    /\ users = SeedUsers
    /\ calls = <<>>

-----------------------------------------------------------------------------
(* Transactions *)

\* transaction.commit() on a table of subscriptions
CommitSubscriptions(t, r) ==
    {[row EXCEPT !.status = IF row.lock = r THEN row.new_status ELSE @,
                 !.xmin = IF @ = r THEN 0 ELSE @,
                 !.lock = IF @ = r THEN 0 ELSE @] : row \in t}

RollbackSubscriptions_Keep(t, r) == CommitSubscriptions(t, r)

\* Rollback (the transaction is dropped without commit)
RollbackSubscriptions(t, r) ==
    {[row EXCEPT !.new_status = IF row.lock = r THEN row.status ELSE @,
                 !.lock = IF @ = r THEN 0 ELSE @] : row \in {x \in t : x.xmin # r}}

CommitTokens(t, r) ==
    {[row EXCEPT !.xmin = IF @ = r THEN 0 ELSE @] : row \in {x \in t : x.xmax # r}}

RollbackTokens(t, r) ==
    {[row EXCEPT !.xmax = IF @ = r THEN 0 ELSE @] : row \in {x \in t : x.xmin # r}}

CommitIdempotency(t, r) ==
    {[row EXCEPT !.xmin = IF @ = r THEN 0 ELSE @] : row \in t}

RollbackIdempotency(t, r) == {x \in t : x.xmin # r}

Arrive(req, max) ==
    /\ Len(requests) < max
    /\ requests' = Append(requests, req)

\* The handler of request r returns `response`; `changes` are the other
\* fields it has set.
Return(r, req, response) ==
    requests' = [requests EXCEPT ![r] = [req EXCEPT !.pc = "done", !.response = response]]

-----------------------------------------------------------------------------
(* POST /subscriptions *)

\* The statement waits: another transaction holds an uncommitted row with
\* this email, or the lock of the row with this email.
InsertSubscriberWaits(t, r, email) ==
    \E row \in t : row.email = email /\ (row.xmin \notin {0, r} \/ row.lock \notin {0, r})

\* A plain INSERT of the new row.
insert_susbscriber_NoConflict(t, r, email, name) ==
    [table |-> t \cup {SubscriptionRow(new_v4(r), email, name, r, "pending_confirmation", r)},
     id |-> new_v4(r), state |-> "Inserted"]

\* The stored status is not looked at: an existing row is taken as pending.
insert_susbscriber_AlwaysPending(t, r, email, name) ==
    LET conflict == {row \in t : row.email = email}
    IN  IF conflict = {}
        THEN insert_susbscriber_NoConflict(t, r, email, name)
        ELSE LET row == CHOOSE x \in conflict : TRUE
             IN  [table |-> (t \ {row}) \cup {[row EXCEPT !.lock = r]},
                  id |-> row.id, state |-> "Pending"]

insert_susbscriber_OnPool(t, r, email, name) ==
    LET subscriber_id == new_v4(r)
        conflict == {row \in t : row.email = email}
    IN  IF conflict = {}
        THEN [table |-> t \cup {SubscriptionRow(subscriber_id, email, name, r,
                                                "pending_confirmation", 0)},
              id |-> subscriber_id, state |-> "Inserted"]
        ELSE LET row == CHOOSE x \in conflict : TRUE
                 result == [row EXCEPT !.lock = r, !.new_status = row.status]
             IN  [table |-> (t \ {row}) \cup {result},
                  id |-> result.id,
                  state |-> IF subscriber_id = result.id THEN "Inserted"
                            ELSE IF result.new_status = "pending_confirmation" THEN "Pending"
                            ELSE "Confirmed"]

\* The conflict branch stores the submitted name: DO UPDATE SET name =
\* EXCLUDED.name.
insert_susbscriber_Overwrite(t, r, email, name) ==
    LET subscriber_id == new_v4(r)
        conflict == {row \in t : row.email = email}
    IN  IF conflict = {}
        THEN [table |-> t \cup {SubscriptionRow(subscriber_id, email, name, r,
                                                "pending_confirmation", r)},
              id |-> subscriber_id, state |-> "Inserted"]
        ELSE LET row == CHOOSE x \in conflict : TRUE
                 result == [row EXCEPT !.lock = r, !.new_status = row.status,
                                       !.name = name]
             IN  [table |-> (t \ {row}) \cup {result},
                  id |-> result.id,
                  state |-> IF result.new_status = "pending_confirmation" THEN "Pending"
                            ELSE "Confirmed"]

\* insert_susbscriber: INSERT .. ON CONFLICT (email) DO UPDATE SET status =
\* subscriptions.status RETURNING id, status; then the SubscriptionState.
insert_susbscriber(t, r, email, name) ==
    LET subscriber_id == new_v4(r)
        conflict == {row \in t : row.email = email}
    IN  IF conflict = {}
        THEN [table |-> t \cup {SubscriptionRow(subscriber_id, email, name, r,
                                                "pending_confirmation", r)},
              id |-> subscriber_id, state |-> "Inserted"]
        ELSE LET row == CHOOSE x \in conflict : TRUE
                 result == [row EXCEPT !.lock = r, !.new_status = row.status]
             IN  [table |-> (t \ {row}) \cup {result},
                  id |-> result.id,
                  state |-> IF subscriber_id = result.id THEN "Inserted"
                            ELSE IF result.new_status = "pending_confirmation" THEN "Pending"
                            ELSE "Confirmed"]

\* store_token: INSERT INTO subscription_tokens
store_token(t, r, subscriber_id, subscription_token) ==
    t \cup {TokenRow(subscription_token, subscriber_id, r)}

\* The SELECT passes over the rows another transaction is deleting.
get_subscriber_confirmation_token_SkipLocked(t, r, subscriber_id) ==
    {row.subscription_token :
        row \in {x \in t : x.subscriber_id = subscriber_id /\ x.xmin \in {0, r} /\ x.xmax = 0}}

\* get_subscriber_confirmation_token: the rows the SELECT returns to
\* transaction r (committed rows and its own; a delete another transaction
\* has not committed is not seen).
get_subscriber_confirmation_token(t, r, subscriber_id) ==
    {row.subscription_token :
        row \in {x \in t : x.subscriber_id = subscriber_id /\ x.xmin \in {0, r} /\ x.xmax # r}}

\* send_email that posts again when the first POST fails.
send_email_Retry(answers) ==
    IF answers[1] = "2xx" THEN [ok |-> TRUE, posts |-> 1]
    ELSE [ok |-> answers[2] = "2xx", posts |-> 2]

\* EmailClient::send_email: one POST; Ok iff the provider answers it 2xx in
\* time (send()? fails on a timeout, error_for_status()? on a non-2xx).
send_email(answers) ==
    LET response == answers[1]
    IN  CASE response = "timeout" -> [ok |-> FALSE, posts |-> 1]
          [] response = "non2xx" -> [ok |-> FALSE, posts |-> 1]
          [] OTHER -> [ok |-> TRUE, posts |-> 1]

ConfirmationEmail(to, subscription_token) ==
    [to |-> to, subject |-> "Welcome!", link |-> build_confirmation_link(subscription_token)]

\* subscribe, up to its first statement: the form is parsed, the transaction begun.
SubscribeArrive ==
    \E form \in SubscribeForms :
        LET email == form[1]
            name == form[2]
            req == [Request("subscribe") EXCEPT !.email = email, !.name = name]
        IN  /\ Arrive(IF NewSubscriber_try_from(email, name)
                      THEN [req EXCEPT !.pc = "insert_subscriber"]
                      ELSE [req EXCEPT !.response = Response(400)], MaxRequests)
            /\ UNCHANGED <<subscriptions, subscription_tokens, idempotency>>

\* The row is looked for among the committed rows and inserted when none is
\* there, without the unique index on email.
SubscribeInsert_CheckThenInsert(r) ==
    LET req == requests[r]
        committed == {row \in subscriptions : row.xmin = 0 /\ row.lock = 0}
    IN  /\ req.kind = "subscribe" /\ req.pc = "insert_subscriber"
        /\ LET res == insert_susbscriber(committed, r, req.email, req.name)
               now == [req EXCEPT !.subscription_state = res.state,
                                  !.subscriber_id = res.id]
           IN  IF res.state = "Confirmed"
               THEN /\ UNCHANGED subscriptions
                    /\ Return(r, now, Response(406))
               ELSE /\ subscriptions' = (subscriptions \ committed) \cup res.table
                    /\ requests' = [requests EXCEPT ![r] =
                            [now EXCEPT !.pc = IF res.state = "Inserted" THEN "store_token"
                                               ELSE "get_token"]]
        /\ UNCHANGED <<subscription_tokens, idempotency>>

\* subscribe: insert_susbscriber and the match on its result; an already
\* confirmed subscriber ends the request (406), the transaction rolls back.
SubscribeInsert(r) ==
    LET req == requests[r] IN
    /\ req.kind = "subscribe" /\ req.pc = "insert_subscriber"
    /\ ~InsertSubscriberWaits(subscriptions, r, req.email)
    /\ LET res == insert_susbscriber(subscriptions, r, req.email, req.name)
           now == [req EXCEPT !.subscription_state = res.state, !.subscriber_id = res.id]
       IN  IF res.state = "Confirmed"
           THEN /\ subscriptions' = RollbackSubscriptions(res.table, r)
                /\ Return(r, now, Response(406))
           ELSE /\ subscriptions' = res.table
                /\ requests' = [requests EXCEPT ![r] =
                        [now EXCEPT !.pc = IF res.state = "Inserted" THEN "store_token"
                                           ELSE "get_token"]]
    /\ UNCHANGED <<subscription_tokens, idempotency>>

\* subscribe, SubscriptionState::Inserted: generate and store the token.
SubscribeStoreToken(r) ==
    LET req == requests[r]
        subscription_token == generate_subscription_token(r)
    IN  /\ req.kind = "subscribe" /\ req.pc = "store_token"
        /\ subscription_tokens' =
               store_token(subscription_tokens, r, req.subscriber_id, subscription_token)
        /\ requests' = [requests EXCEPT ![r] =
               [req EXCEPT !.subscription_token = subscription_token, !.pc = "send"]]
        /\ UNCHANGED <<subscriptions, idempotency>>

SubscribeGetToken_Regenerate(r) ==
    LET req == requests[r]
        subscription_token == generate_subscription_token(r)
    IN  /\ req.kind = "subscribe" /\ req.pc = "get_token"
        /\ subscription_tokens' =
               store_token(subscription_tokens, r, req.subscriber_id, subscription_token)
        /\ requests' = [requests EXCEPT ![r] =
               [req EXCEPT !.subscription_token = subscription_token, !.pc = "send"]]
        /\ UNCHANGED <<subscriptions, idempotency>>

\* subscribe, SubscriptionState::Pending: fetch the stored token (fetch_one:
\* no row is an error, 500).
SubscribeGetToken(r) ==
    LET req == requests[r]
        found == get_subscriber_confirmation_token(subscription_tokens, r, req.subscriber_id)
    IN  /\ req.kind = "subscribe" /\ req.pc = "get_token"
        /\ IF found = {}
           THEN /\ subscriptions' = RollbackSubscriptions(subscriptions, r)
                /\ Return(r, req, Response(500))
           ELSE /\ \E subscription_token \in found :
                      requests' = [requests EXCEPT ![r] =
                          [req EXCEPT !.subscription_token = subscription_token,
                                      !.pc = "send"]]
                /\ UNCHANGED subscriptions
        /\ UNCHANGED <<subscription_tokens, idempotency>>

\* subscribe: render the confirmation email and send it; a failed send ends
\* the request (500), the transaction rolls back.
SubscribeSend(r) ==
    LET req == requests[r] IN
    /\ req.kind = "subscribe" /\ req.pc = "send"
    /\ \E answers \in ProviderAnswers :
        LET result == send_email(answers)
            posted == [req EXCEPT !.posts = @ + result.posts]
        IN
        IF result.ok
        THEN /\ requests' = [requests EXCEPT ![r] =
                    [posted EXCEPT !.sent = Append(@, ConfirmationEmail(req.email,
                                                        req.subscription_token)),
                                   !.pc = "commit"]]
             /\ UNCHANGED <<subscriptions, subscription_tokens>>
        ELSE /\ Return(r, [posted EXCEPT !.gateway_failed = TRUE], Response(500))
             /\ subscriptions' = RollbackSubscriptions(subscriptions, r)
             /\ subscription_tokens' = RollbackTokens(subscription_tokens, r)
    /\ UNCHANGED idempotency

\* subscribe: commit, 200.
SubscribeCommit(r) ==
    LET req == requests[r] IN
    /\ req.kind = "subscribe" /\ req.pc = "commit"
    /\ subscriptions' = CommitSubscriptions(subscriptions, r)
    /\ subscription_tokens' = CommitTokens(subscription_tokens, r)
    /\ Return(r, req, Response(200))
    /\ UNCHANGED idempotency

\* subscribe: a step after the upsert fails (store_token, the token lookup,
\* the rendering of the email, the commit); the handler returns 500 and the
\* transaction is dropped.
SubscribeFails(r) ==
    LET req == requests[r] IN
    /\ req.kind = "subscribe"
    /\ req.pc \in {"store_token", "get_token", "send", "commit"}
    /\ subscriptions' = RollbackSubscriptions(subscriptions, r)
    /\ subscription_tokens' = RollbackTokens(subscription_tokens, r)
    /\ Return(r, req, Response(500))
    /\ UNCHANGED idempotency

-----------------------------------------------------------------------------
(* GET /subscriptions/confirm *)

\* The tokens a client can present: those of the links mailed so far, those
\* mailed to the seed subscribers, and a malformed one.
MailedTokens ==
    UNION {{requests[r].sent[i].link.subscription_token : i \in 1..Len(requests[r].sent)} :
              r \in {q \in 1..Len(requests) : requests[q].kind = "subscribe"}}

ConfirmTokens ==
    MailedTokens \cup {SeedToken(i) : i \in 1..Len(SeedEmails)} \cup {MalformedToken}

\* The DELETE waits: another transaction has deleted the row and not yet
\* committed.
DeleteTokenWaits(t, r, subscription_token) ==
    \E row \in t : /\ row.subscription_token = subscription_token
                   /\ row.xmin = 0
                   /\ row.xmax \notin {0, r}

delete_possible_pending_subscriber_confirmation_Select(t, r, subscription_token) ==
    LET hit == {row \in t : /\ row.subscription_token = subscription_token
                            /\ row.xmin \in {0, r}
                            /\ row.xmax # r}
    IN  [table |-> t, subscriber_ids |-> {row.subscriber_id : row \in hit}]

\* delete_possible_pending_subscriber_confirmation: DELETE .. WHERE
\* subscription_token = $1 RETURNING subscriber_id (fetch_optional).
delete_possible_pending_subscriber_confirmation(t, r, subscription_token) ==
    LET hit == {row \in t : /\ row.subscription_token = subscription_token
                            /\ row.xmin \in {0, r}
                            /\ row.xmax # r}
    IN  [table |-> (t \ hit) \cup {[row EXCEPT !.xmax = r] : row \in {x \in hit : x.xmin = 0}},
         subscriber_ids |-> {row.subscriber_id : row \in hit}]

\* The UPDATE without its WHERE clause.
confirm_subscriber_All(t, r, subscriber_id) ==
    {IF row.xmin \in {0, r}
     THEN [row EXCEPT !.lock = r, !.new_status = "confirmed"]
     ELSE row : row \in t}

\* The UPDATE waits for the lock of the subscriber's row.
ConfirmSubscriberWaits(t, r, subscriber_id) ==
    \E row \in t : row.id = subscriber_id /\ row.xmin = 0 /\ row.lock \notin {0, r}

\* confirm_subscriber: UPDATE subscriptions SET status = 'confirmed' WHERE id = $1
confirm_subscriber(t, r, subscriber_id) ==
    {IF row.id = subscriber_id /\ row.xmin \in {0, r}
     THEN [row EXCEPT !.lock = r, !.new_status = "confirmed"]
     ELSE row : row \in t}

\* confirm, up to its first statement: the token is parsed, the transaction begun.
ConfirmArrive ==
    \E subscription_token \in ConfirmTokens :
        LET req == [Request("confirm") EXCEPT !.subscription_token = subscription_token]
        IN  /\ Arrive(IF SubscriptionToken_parse(subscription_token)
                      THEN [req EXCEPT !.pc = "delete_token"]
                      ELSE [req EXCEPT !.response = Response(400)], MaxRequests)
            /\ UNCHANGED <<subscriptions, subscription_tokens, idempotency>>

\* The DELETE does not wait for the transaction that is deleting the row.
ConfirmDelete_NoWait(r) ==
    LET req == requests[r] IN
    /\ req.kind = "confirm" /\ req.pc = "delete_token"
    /\ LET res == delete_possible_pending_subscriber_confirmation(
                      subscription_tokens, r, req.subscription_token)
       IN  IF res.subscriber_ids = {}
           THEN /\ subscription_tokens' = RollbackTokens(res.table, r)
                /\ Return(r, req, Response(401))
           ELSE /\ subscription_tokens' = res.table
                /\ \E subscriber_id \in res.subscriber_ids :
                      requests' = [requests EXCEPT ![r] =
                          [req EXCEPT !.subscriber_id = subscriber_id,
                                      !.pc = "confirm_subscriber"]]
    /\ UNCHANGED <<subscriptions, idempotency>>

\* confirm: delete the token row; none deleted ends the request (401).
ConfirmDelete(r) ==
    LET req == requests[r] IN
    /\ req.kind = "confirm" /\ req.pc = "delete_token"
    /\ ~DeleteTokenWaits(subscription_tokens, r, req.subscription_token)
    /\ LET res == delete_possible_pending_subscriber_confirmation(
                      subscription_tokens, r, req.subscription_token)
       IN  IF res.subscriber_ids = {}
           THEN /\ subscription_tokens' = RollbackTokens(res.table, r)
                /\ Return(r, req, Response(401))
           ELSE /\ subscription_tokens' = res.table
                /\ \E subscriber_id \in res.subscriber_ids :
                      requests' = [requests EXCEPT ![r] =
                          [req EXCEPT !.subscriber_id = subscriber_id,
                                      !.pc = "confirm_subscriber"]]
    /\ UNCHANGED <<subscriptions, idempotency>>

\* confirm: mark the subscriber confirmed.
ConfirmUpdate(r) ==
    LET req == requests[r] IN
    /\ req.kind = "confirm" /\ req.pc = "confirm_subscriber"
    /\ ~ConfirmSubscriberWaits(subscriptions, r, req.subscriber_id)
    /\ subscriptions' = confirm_subscriber(subscriptions, r, req.subscriber_id)
    /\ requests' = [requests EXCEPT ![r] = [req EXCEPT !.pc = "commit"]]
    /\ UNCHANGED <<subscription_tokens, idempotency>>

\* confirm: commit, 200.
ConfirmCommit(r) ==
    LET req == requests[r] IN
    /\ req.kind = "confirm" /\ req.pc = "commit"
    /\ subscriptions' = CommitSubscriptions(subscriptions, r)
    /\ subscription_tokens' = CommitTokens(subscription_tokens, r)
    /\ Return(r, req, Response(200))
    /\ UNCHANGED idempotency

\* confirm: a statement or the commit fails; the handler returns 500 and the
\* transaction is dropped.
ConfirmFails(r) ==
    LET req == requests[r] IN
    /\ req.kind = "confirm"
    /\ req.pc \in {"delete_token", "confirm_subscriber", "commit"}
    /\ subscriptions' = RollbackSubscriptions(subscriptions, r)
    /\ subscription_tokens' = RollbackTokens(subscription_tokens, r)
    /\ Return(r, req, Response(500))
    /\ UNCHANGED idempotency

-----------------------------------------------------------------------------
(* Idempotency store *)

\* The reservation INSERT waits: another transaction holds an uncommitted
\* row for (user_id, idempotency_key).
TryProcessingWaits(t, r, user_id, idempotency_key) ==
    \E row \in t : /\ row.user_id = user_id
                   /\ row.idempotency_key = idempotency_key
                   /\ row.xmin \notin {0, r}

\* try_processing: insert the placeholder row, or on conflict read the saved
\* response back.
try_processing(t, r, user_id, idempotency_key) ==
    LET existing == {row \in t : /\ row.user_id = user_id
                                 /\ row.idempotency_key = idempotency_key}
    IN  IF existing = {}
        THEN [action |-> "StartProcessing",
              table |-> t \cup {IdempotencyRow(user_id, idempotency_key, r)},
              saved_response |-> NoResponse]
        ELSE LET row == CHOOSE x \in existing : TRUE
             IN  [action |-> IF row.response_status_code # 0 THEN "ReturnSavedResponse"
                             ELSE "Error",
                  table |-> t,
                  saved_response |-> [status |-> row.response_status_code,
                                      headers |-> row.response_headers,
                                      body |-> row.response_body]]

\* save_response: store status, headers and body in the row, commit.
save_response(t, r, user_id, idempotency_key, response) ==
    CommitIdempotency(
        {IF row.user_id = user_id /\ row.idempotency_key = idempotency_key
         THEN [row EXCEPT !.response_status_code = response.status,
                          !.response_headers = response.headers,
                          !.response_body = response.body]
         ELSE row : row \in t}, r)

-----------------------------------------------------------------------------
(* POST /admin/newsletters *)

Injective(f) == \A i, j \in DOMAIN f : f[i] = f[j] => i = j

\* All orders in which a SELECT without ORDER BY may return the set S.
Orders(S) == {f \in [1..Cardinality(S) -> S] : Injective(f)}

get_confirmed_subscribers_All(t) ==
    Orders({row.email : row \in {x \in t : x.xmin = 0}})

\* get_confirmed_subscribers: SELECT email FROM subscriptions WHERE status =
\* 'confirmed', on the pool (committed rows), in any order.
get_confirmed_subscribers(t) ==
    Orders({row.email : row \in {x \in t : x.xmin = 0 /\ x.status = "confirmed"}})

Recipients_All(subscribers) == subscribers

\* The subscribers of the list the dispatch loop sends to: those whose
\* stored email parses; the others are skipped with a warning.
Recipients(subscribers) == SelectSeq(subscribers, SubscriberEmail_parse)

NewsletterEmail(to) == [to |-> to, subject |-> Title, link |-> NoLink]

\* publish_newsletter, up to try_processing: the confirmed subscribers are
\* fetched, then the idempotency key is validated (400).
PublishArrive ==
    \E form \in PublishForms :
    \E subscribers \in get_confirmed_subscribers(subscriptions) :
        LET user_id == form[1]
            idempotency_key == form[2]
            req == [Request("publish") EXCEPT !.user_id = user_id,
                                              !.idempotency_key = idempotency_key,
                                              !.fetched = TRUE,
                                              !.subscribers = subscribers]
        IN  /\ Arrive(IF IdempotencyKey_try_from(idempotency_key)
                      THEN [req EXCEPT !.pc = "try_processing"]
                      ELSE [req EXCEPT !.response = Response(400)], MaxPublish)
            /\ UNCHANGED <<subscriptions, subscription_tokens, idempotency>>

\* publish_newsletter: the request finds the key reserved by a request in
\* flight and waits for it.
PublishWait(r) ==
    LET req == requests[r] IN
    /\ req.kind = "publish" /\ req.pc = "try_processing"
    /\ req.waited_on = 0
    /\ \E row \in idempotency :
        /\ row.user_id = req.user_id
        /\ row.idempotency_key = req.idempotency_key
        /\ row.xmin \notin {0, r}
        /\ requests' = [requests EXCEPT ![r] = [req EXCEPT !.waited_on = row.xmin]]
    /\ UNCHANGED <<subscriptions, subscription_tokens, idempotency>>

AfterReservation(req) ==
    [req EXCEPT !.pc = IF Recipients(req.subscribers) = <<>> THEN "save_response"
                       ELSE "dispatch"]

PublishTryProcessing_KeyOnly(r) ==
    LET req == requests[r]
        holders == {row.user_id : row \in {x \in idempotency :
                                      x.idempotency_key = req.idempotency_key}}
        user_id == IF holders = {} THEN req.user_id ELSE CHOOSE u \in holders : TRUE
    IN  /\ req.kind = "publish" /\ req.pc = "try_processing"
        /\ ~TryProcessingWaits(idempotency, r, user_id, req.idempotency_key)
        /\ LET next == try_processing(idempotency, r, user_id, req.idempotency_key)
           IN  /\ idempotency' = next.table
               /\ CASE next.action = "StartProcessing" ->
                         requests' = [requests EXCEPT ![r] = AfterReservation(req)]
                    [] next.action = "ReturnSavedResponse" ->
                         Return(r, req, next.saved_response)
                    [] OTHER -> Return(r, req, Response(500))
        /\ UNCHANGED <<subscriptions, subscription_tokens>>

PublishTryProcessing_NoEarlyReturn(r) ==
    LET req == requests[r] IN
    /\ req.kind = "publish" /\ req.pc = "try_processing"
    /\ ~TryProcessingWaits(idempotency, r, req.user_id, req.idempotency_key)
    /\ LET next == try_processing(idempotency, r, req.user_id, req.idempotency_key)
       IN  /\ idempotency' = next.table
           /\ IF next.action = "Error"
              THEN Return(r, req, Response(500))
              ELSE requests' = [requests EXCEPT ![r] = AfterReservation(req)]
    /\ UNCHANGED <<subscriptions, subscription_tokens>>

PublishTryProcessing_ReplayOk(r) ==
    LET req == requests[r] IN
    /\ req.kind = "publish" /\ req.pc = "try_processing"
    /\ ~TryProcessingWaits(idempotency, r, req.user_id, req.idempotency_key)
    /\ LET next == try_processing(idempotency, r, req.user_id, req.idempotency_key)
       IN  /\ idempotency' = next.table
           /\ CASE next.action = "StartProcessing" ->
                     requests' = [requests EXCEPT ![r] = AfterReservation(req)]
                [] next.action = "ReturnSavedResponse" ->
                     Return(r, req, Response(200))
                [] OTHER -> Return(r, req, Response(500))
    /\ UNCHANGED <<subscriptions, subscription_tokens>>

\* publish_newsletter: try_processing and the match on its result; a saved
\* response is returned at once.
PublishTryProcessing(r) ==
    LET req == requests[r] IN
    /\ req.kind = "publish" /\ req.pc = "try_processing"
    /\ ~TryProcessingWaits(idempotency, r, req.user_id, req.idempotency_key)
    /\ LET next == try_processing(idempotency, r, req.user_id, req.idempotency_key)
       IN  /\ idempotency' = next.table
           /\ CASE next.action = "StartProcessing" ->
                     requests' = [requests EXCEPT ![r] = AfterReservation(req)]
                [] next.action = "ReturnSavedResponse" ->
                     Return(r, req, next.saved_response)
                [] OTHER -> Return(r, req, Response(500))
    /\ UNCHANGED <<subscriptions, subscription_tokens>>

PublishDispatch_Continue(r) ==
    LET req == requests[r]
        recipients == Recipients(req.subscribers)
        i == req.posts + 1
    IN  /\ req.kind = "publish" /\ req.pc = "dispatch"
        /\ \E answers \in ProviderAnswers :
            LET result == send_email(answers)
                posted == [req EXCEPT !.posts = @ + result.posts,
                                      !.pc = IF i = Len(recipients) THEN "save_response"
                                             ELSE "dispatch"]
            IN  requests' = [requests EXCEPT ![r] =
                    IF result.ok
                    THEN [posted EXCEPT !.sent = Append(@, NewsletterEmail(recipients[i]))]
                    ELSE [posted EXCEPT !.gateway_failed = TRUE]]
        /\ UNCHANGED <<subscriptions, subscription_tokens, idempotency>>

PublishDispatch_SaveOnFailure(r) ==
    LET req == requests[r]
        recipients == Recipients(req.subscribers)
        i == req.posts + 1
    IN  /\ req.kind = "publish" /\ req.pc = "dispatch"
        /\ \E answers \in ProviderAnswers :
            LET result == send_email(answers)
                posted == [req EXCEPT !.posts = @ + result.posts]
            IN  requests' = [requests EXCEPT ![r] =
                    IF result.ok
                    THEN [posted EXCEPT !.sent = Append(@, NewsletterEmail(recipients[i])),
                                        !.pc = IF i = Len(recipients) THEN "save_response"
                                               ELSE "dispatch"]
                    ELSE [posted EXCEPT !.gateway_failed = TRUE, !.pc = "save_response"]]
        /\ UNCHANGED <<subscriptions, subscription_tokens, idempotency>>

PublishDispatch_CommitsOnFailure(r) ==
    LET req == requests[r]
        recipients == Recipients(req.subscribers)
        i == req.posts + 1
    IN  /\ req.kind = "publish" /\ req.pc = "dispatch"
        /\ \E answers \in ProviderAnswers :
            LET result == send_email(answers)
                posted == [req EXCEPT !.posts = @ + result.posts]
            IN
            IF result.ok
            THEN /\ requests' = [requests EXCEPT ![r] =
                        [posted EXCEPT !.sent = Append(@, NewsletterEmail(recipients[i])),
                                       !.pc = IF i = Len(recipients) THEN "save_response"
                                              ELSE "dispatch"]]
                 /\ UNCHANGED idempotency
            ELSE /\ Return(r, [posted EXCEPT !.gateway_failed = TRUE], Response(500))
                 /\ idempotency' = CommitIdempotency(idempotency, r)
        /\ UNCHANGED <<subscriptions, subscription_tokens>>

PublishDispatch_KeepsReservation(r) ==
    LET req == requests[r]
        recipients == Recipients(req.subscribers)
        i == req.posts + 1
    IN  /\ req.kind = "publish" /\ req.pc = "dispatch"
        /\ \E answers \in ProviderAnswers :
            LET result == send_email(answers)
                posted == [req EXCEPT !.posts = @ + result.posts]
            IN
            IF result.ok
            THEN requests' = [requests EXCEPT ![r] =
                        [posted EXCEPT !.sent = Append(@, NewsletterEmail(recipients[i])),
                                       !.pc = IF i = Len(recipients) THEN "save_response"
                                              ELSE "dispatch"]]
            ELSE Return(r, [posted EXCEPT !.gateway_failed = TRUE], Response(500))
        /\ UNCHANGED <<subscriptions, subscription_tokens, idempotency>>

\* publish_newsletter: one turn of the dispatch loop that sends (the turns
\* that skip an invalid stored email run with it); a failed send ends the
\* request (500), the transaction rolls back.
PublishDispatch(r) ==
    LET req == requests[r]
        recipients == Recipients(req.subscribers)
        i == req.posts + 1
    IN  /\ req.kind = "publish" /\ req.pc = "dispatch"
        /\ \E answers \in ProviderAnswers :
            LET result == send_email(answers)
                posted == [req EXCEPT !.posts = @ + result.posts]
            IN
            IF result.ok
            THEN /\ requests' = [requests EXCEPT ![r] =
                        [posted EXCEPT !.sent = Append(@, NewsletterEmail(recipients[i])),
                                       !.pc = IF i = Len(recipients) THEN "save_response"
                                              ELSE "dispatch"]]
                 /\ UNCHANGED idempotency
            ELSE /\ Return(r, [posted EXCEPT !.gateway_failed = TRUE], Response(500))
                 /\ idempotency' = RollbackIdempotency(idempotency, r)
        /\ UNCHANGED <<subscriptions, subscription_tokens>>

\* publish_newsletter: save the 303 and commit.
PublishSave(r) ==
    LET req == requests[r]
        response == see_other("/admin/newsletters")
    IN  /\ req.kind = "publish" /\ req.pc = "save_response"
        /\ idempotency' = save_response(idempotency, r, req.user_id,
                                        req.idempotency_key, response)
        /\ Return(r, [req EXCEPT !.saved = TRUE], response)
        /\ UNCHANGED <<subscriptions, subscription_tokens>>

-----------------------------------------------------------------------------
(* POST /admin/collaborator *)

\* The sessions a request can come with: none (""), or that of a user who
\* logged in.
Sessions == {""} \cup {row.user_id : row \in {x \in users : x.xmin = 0}}

\* reject_anonymous_users: a request without a logged-in user is redirected
\* to /login.
reject_anonymous_users(user_id) == user_id = ""

\* The bodies clients post: a valid email, an invalid one, no email field.
InviteBodies ==
    {[missing |-> {}, email |-> EmailA],
     [missing |-> {}, email |-> EmailLegacy],
     [missing |-> {"email"}, email |-> <<>>]}

\* web::Form / web::Query: the extractor fails (400) when a field of the
\* struct is missing.
Extracted(body) == body.missing = {}

\* The two values bound to each other's column.
insert_collaborator_token_Swapped(t, r, invitation_token, validation_code) ==
    t \cup {InvitationRow(validation_code, invitation_token, r)}

\* insert_collaborator_token: INSERT INTO invitation_tokens
insert_collaborator_token(t, r, invitation_token, validation_code) ==
    t \cup {InvitationRow(invitation_token, validation_code, r)}

CommitInvitations(t, r) ==
    {[row EXCEPT !.xmin = IF @ = r THEN 0 ELSE @] : row \in {x \in t : x.xmax # r}}

RollbackInvitations(t, r) ==
    {[row EXCEPT !.xmax = IF @ = r THEN 0 ELSE @] : row \in {x \in t : x.xmin # r}}

InvitationEmail(to, invitation_token) ==
    [to |-> to, subject |-> "Welcome!", link |-> build_invitation_link(invitation_token)]

\* HttpResponse::Ok().json({"validation_code": validation_code})
InviteOk(validation_code) ==
    [Response(200) EXCEPT !.body = [validation_code |-> validation_code]]

\* invite_collaborator without the check of the role.
InviteArrive_NoRoleCheck ==
    \E user_id \in Sessions, body \in InviteBodies :
        LET r == Len(requests) + 1
            req == [Request("invite") EXCEPT !.user_id = user_id, !.email = body.email,
                                             !.missing = body.missing]
        IN  /\ Arrive(CASE reject_anonymous_users(user_id) ->
                              [req EXCEPT !.response = see_other("/login")]
                        [] ~Extracted(body) -> [req EXCEPT !.response = Response(400)]
                        [] ~NewCollaborator_try_from(body.email) ->
                              [req EXCEPT !.response = Response(400)]
                        [] OTHER ->
                              [req EXCEPT !.invitation_token = generate_invitation_token(r),
                                          !.validation_code = generate_validation_code(r),
                                          !.pc = "insert_collaborator_token"],
                      MaxInvites)
            /\ UNCHANGED <<invitation_tokens, users>>

\* invite_collaborator, up to its first statement: the middleware, the
\* extractors, the check of the role (405), the form (400), the draws.
InviteArrive ==
    \E user_id \in Sessions, body \in InviteBodies :
        LET r == Len(requests) + 1
            req == [Request("invite") EXCEPT !.user_id = user_id, !.email = body.email,
                                             !.missing = body.missing]
        IN  /\ Arrive(CASE reject_anonymous_users(user_id) ->
                              [req EXCEPT !.response = see_other("/login")]
                        [] ~Extracted(body) -> [req EXCEPT !.response = Response(400)]
                        [] get_user_role(users, user_id) # "admin" ->
                              [req EXCEPT !.response = Response(405)]
                        [] ~NewCollaborator_try_from(body.email) ->
                              [req EXCEPT !.response = Response(400)]
                        [] OTHER ->
                              [req EXCEPT !.invitation_token = generate_invitation_token(r),
                                          !.validation_code = generate_validation_code(r),
                                          !.pc = "insert_collaborator_token"],
                      MaxInvites)
            /\ UNCHANGED <<invitation_tokens, users>>

\* invite_collaborator: store the token and the code.
InviteInsert(r) ==
    LET req == requests[r] IN
    /\ req.kind = "invite" /\ req.pc = "insert_collaborator_token"
    /\ invitation_tokens' = insert_collaborator_token(invitation_tokens, r,
                                 req.invitation_token, req.validation_code)
    /\ requests' = [requests EXCEPT ![r] = [req EXCEPT !.pc = "commit"]]
    /\ UNCHANGED users

\* invite_collaborator: commit.
InviteCommit(r) ==
    LET req == requests[r] IN
    /\ req.kind = "invite" /\ req.pc = "commit"
    /\ invitation_tokens' = CommitInvitations(invitation_tokens, r)
    /\ requests' = [requests EXCEPT ![r] = [req EXCEPT !.pc = "send"]]
    /\ UNCHANGED users

\* invite_collaborator: render the invitation and send it (500 on a failed
\* send; the row is committed already), then 200 with the code.
InviteSend(r) ==
    LET req == requests[r] IN
    /\ req.kind = "invite" /\ req.pc = "send"
    /\ \E answers \in ProviderAnswers :
        LET result == send_email(answers)
            posted == [req EXCEPT !.posts = @ + result.posts]
        IN  IF result.ok
            THEN Return(r, [posted EXCEPT !.sent = Append(@, InvitationEmail(req.email,
                                                        req.invitation_token))],
                        InviteOk(req.validation_code))
            ELSE Return(r, [posted EXCEPT !.gateway_failed = TRUE], Response(500))
    /\ UNCHANGED <<invitation_tokens, users>>

-----------------------------------------------------------------------------
(* GET /collaborator and POST /collaborator/register *)

\* The invitations stored when the server starts: two, each with its code.
SeedInvitations ==
    {InvitationRow(generate_invitation_token(Len(Alphanumeric)), generate_validation_code(1), 0),
     InvitationRow(generate_invitation_token(Len(Alphanumeric) - 1),
                   generate_validation_code(2), 0)}

TokenInvited == generate_invitation_token(Len(Alphanumeric))

TokenInvitedToo == generate_invitation_token(Len(Alphanumeric) - 1)

\* A well-formed token no invitation carries.
TokenUnknown == generate_invitation_token(1)

CodeInvited == generate_validation_code(1)

CodeInvitedToo == generate_validation_code(2)

MalformedCode == <<"2", "4", "g", "5">>

Password(n) == Repeat("p", n)

RegisterForm(invitation_token, validation_code, username, password) ==
    [invitation_token |-> invitation_token, validation_code |-> validation_code,
     username |-> username, password |-> password]

\* The registration forms clients post: the valid one, and its variations
\* in one field (password at and beyond both limits, username in use, the
\* code of the other invitation, unknown token, malformed token or code);
\* and the valid form of the other invitation, with the same username.
RegisterForms ==
    {RegisterForm(TokenInvited, CodeInvited, "le_guin", Password(n)) :
        n \in {PasswordMinLength - 1, PasswordMinLength,
                PasswordMaxLength, PasswordMaxLength + 1}}
    \cup {RegisterForm(TokenInvited, CodeInvited, "ursula", Password(PasswordMinLength)),
          RegisterForm(TokenInvited, CodeInvitedToo, "le_guin", Password(PasswordMinLength)),
          RegisterForm(TokenUnknown, CodeInvited, "le_guin", Password(PasswordMinLength)),
          RegisterForm(MalformedToken, CodeInvited, "le_guin", Password(PasswordMinLength)),
          RegisterForm(TokenInvited, MalformedCode, "le_guin", Password(PasswordMinLength)),
          RegisterForm(TokenInvitedToo, CodeInvitedToo, "le_guin",
                       Password(PasswordMinLength))}

\* The queries of the form requests: a stored token, an unknown one, a
\* malformed one, none.
FormQueries ==
    {[missing |-> {}, invitation_token |-> TokenInvited],
     [missing |-> {}, invitation_token |-> TokenUnknown],
     [missing |-> {}, invitation_token |-> MalformedToken],
     [missing |-> {"invitation_token"}, invitation_token |-> <<>>]}

\* The user ids drawn by the requests (Uuid::new_v4).
NewUserIds == <<"n1", "n2", "n3", "n4", "n5">>

new_user_id(r) == NewUserIds[r]

\* contains_invitation_token: SELECT 1 FROM invitation_tokens WHERE
\* invitation_token = $1, on the pool.
contains_invitation_token(t, invitation_token) ==
    \E row \in t : row.invitation_token = invitation_token /\ row.xmin = 0

register_collaborator_form_Consumes ==
    \E query \in FormQueries :
        LET req == [Request("register_form") EXCEPT
                        !.invitation_token = query.invitation_token,
                        !.missing = query.missing]
        IN  /\ Arrive(CASE ~Extracted(query) -> [req EXCEPT !.response = Response(400)]
                        [] ~InvitationToken_parse(query.invitation_token) ->
                              [req EXCEPT !.response = Response(400)]
                        [] ~contains_invitation_token(invitation_tokens,
                                                      query.invitation_token) ->
                              [req EXCEPT !.response = Response(401)]
                        [] OTHER -> [req EXCEPT !.response = Response(200)],
                      MaxRegistrations)
            /\ invitation_tokens' =
                  {row \in invitation_tokens :
                      row.invitation_token # query.invitation_token \/ row.xmax # 0}
            /\ UNCHANGED users

\* register_collaborator_form: parse the token (400), look it up (401),
\* serve the form (200).
register_collaborator_form ==
    \E query \in FormQueries :
        LET req == [Request("register_form") EXCEPT
                        !.invitation_token = query.invitation_token,
                        !.missing = query.missing]
        IN  /\ Arrive(CASE ~Extracted(query) -> [req EXCEPT !.response = Response(400)]
                        [] ~InvitationToken_parse(query.invitation_token) ->
                              [req EXCEPT !.response = Response(400)]
                        [] ~contains_invitation_token(invitation_tokens,
                                                      query.invitation_token) ->
                              [req EXCEPT !.response = Response(401)]
                        [] OTHER -> [req EXCEPT !.response = Response(200)],
                      MaxRegistrations)
            /\ UNCHANGED <<invitation_tokens, users>>

\* The DELETE waits: another transaction has deleted the row and not yet
\* committed.
RemoveInvitationWaits(t, r, invitation_token, validation_code) ==
    \E row \in t : /\ row.invitation_token = invitation_token
                   /\ row.validation_code = validation_code
                   /\ row.xmin = 0
                   /\ row.xmax \notin {0, r}

remove_invitation_token_Select(t, r, invitation_token, validation_code) ==
    [table |-> t,
     contained |-> \E row \in t : /\ row.invitation_token = invitation_token
                                  /\ row.validation_code = validation_code
                                  /\ row.xmin \in {0, r}]

remove_invitation_token_AnyCode(t, r, invitation_token, validation_code) ==
    LET hit == {row \in t : /\ row.invitation_token = invitation_token
                            /\ row.xmin \in {0, r}
                            /\ row.xmax # r}
    IN  [table |-> (t \ hit) \cup {[row EXCEPT !.xmax = r] : row \in {x \in hit : x.xmin = 0}},
         contained |-> hit # {}]

\* remove_invitation_token: DELETE FROM invitation_tokens WHERE
\* invitation_token = $1 AND validation_code = $2 RETURNING 1
remove_invitation_token(t, r, invitation_token, validation_code) ==
    LET hit == {row \in t : /\ row.invitation_token = invitation_token
                            /\ row.validation_code = validation_code
                            /\ row.xmin \in {0, r}
                            /\ row.xmax # r}
    IN  [table |-> (t \ hit) \cup {[row EXCEPT !.xmax = r] : row \in {x \in hit : x.xmin = 0}},
         contained |-> hit # {}]

\* The INSERT waits: another transaction holds an uncommitted row with this
\* username.
InsertCollaboratorWaits(t, r, username) ==
    \E row \in t : row.username = username /\ row.xmin \notin {0, r}

\* insert_collaborator: INSERT INTO users .. 'collaborator'; a unique
\* violation is Ok(false).
insert_collaborator(t, r, username) ==
    IF \E row \in t : row.username = username
    THEN [table |-> t, inserted |-> FALSE]
    ELSE [table |-> t \cup {UserRow(new_user_id(r), username, "collaborator", r)},
          inserted |-> TRUE]

CommitUsers(t, r) == {[row EXCEPT !.xmin = IF @ = r THEN 0 ELSE @] : row \in t}

RollbackUsers(t, r) == {x \in t : x.xmin # r}

\* register_collaborator, up to its first statement: token and code are
\* parsed (400), the password length is checked (303 to /collaborator).
RegisterArrive ==
    \E form \in RegisterForms :
        LET req == [Request("register") EXCEPT
                        !.invitation_token = form.invitation_token,
                        !.validation_code = form.validation_code,
                        !.username = form.username,
                        !.password = form.password]
        IN  /\ Arrive(CASE ~InvitationToken_parse(form.invitation_token) ->
                              [req EXCEPT !.response = Response(400)]
                        [] ~ValidationCode_parse(form.validation_code) ->
                              [req EXCEPT !.response = Response(400)]
                        [] ~(PasswordMinLength <= Len(form.password)
                              /\ Len(form.password) <= PasswordMaxLength) ->
                              [req EXCEPT !.response = see_other("/collaborator")]
                        [] OTHER -> [req EXCEPT !.pc = "remove_invitation_token"],
                      MaxRegistrations)
            /\ UNCHANGED <<invitation_tokens, users>>

\* register_collaborator: delete the invitation; none deleted ends the
\* request (401).
RegisterRemove(r) ==
    LET req == requests[r] IN
    /\ req.kind = "register" /\ req.pc = "remove_invitation_token"
    /\ ~RemoveInvitationWaits(invitation_tokens, r, req.invitation_token, req.validation_code)
    /\ LET res == remove_invitation_token(invitation_tokens, r, req.invitation_token,
                                          req.validation_code)
       IN  IF res.contained
           THEN /\ invitation_tokens' = res.table
                /\ requests' = [requests EXCEPT ![r] =
                        [req EXCEPT !.pc = "insert_collaborator"]]
           ELSE /\ invitation_tokens' = RollbackInvitations(res.table, r)
                /\ Return(r, req, Response(401))
    /\ UNCHANGED users

RegisterInsert_Commit(r) ==
    LET req == requests[r] IN
    /\ req.kind = "register" /\ req.pc = "insert_collaborator"
    /\ ~InsertCollaboratorWaits(users, r, req.username)
    /\ LET res == insert_collaborator(users, r, req.username)
       IN  IF res.inserted
           THEN /\ users' = res.table
                /\ requests' = [requests EXCEPT ![r] = [req EXCEPT !.pc = "commit"]]
                /\ UNCHANGED invitation_tokens
           ELSE /\ users' = RollbackUsers(res.table, r)
                /\ invitation_tokens' = CommitInvitations(invitation_tokens, r)
                /\ Return(r, req, see_other("/collaborator"))

\* register_collaborator: insert the user; a username in use ends the
\* request (303 to /collaborator), the transaction rolls back.
RegisterInsert(r) ==
    LET req == requests[r] IN
    /\ req.kind = "register" /\ req.pc = "insert_collaborator"
    /\ ~InsertCollaboratorWaits(users, r, req.username)
    /\ LET res == insert_collaborator(users, r, req.username)
       IN  IF res.inserted
           THEN /\ users' = res.table
                /\ requests' = [requests EXCEPT ![r] = [req EXCEPT !.pc = "commit"]]
                /\ UNCHANGED invitation_tokens
           ELSE /\ users' = RollbackUsers(res.table, r)
                /\ invitation_tokens' = RollbackInvitations(invitation_tokens, r)
                /\ Return(r, req, see_other("/collaborator"))

\* register_collaborator: commit, 200.
RegisterCommit(r) ==
    LET req == requests[r] IN
    /\ req.kind = "register" /\ req.pc = "commit"
    /\ invitation_tokens' = CommitInvitations(invitation_tokens, r)
    /\ users' = CommitUsers(users, r)
    /\ Return(r, req, Response(200))

-----------------------------------------------------------------------------

NextSubscribers ==
    /\ \/ SubscribeArrive
       \/ ConfirmArrive
       \/ \E r \in 1..Len(requests) :
           \/ SubscribeInsert(r)
           \/ SubscribeStoreToken(r)
           \/ SubscribeGetToken(r)
           \/ SubscribeSend(r)
           \/ SubscribeCommit(r)
           \/ ConfirmDelete(r)
           \/ ConfirmUpdate(r)
           \/ ConfirmCommit(r)
    /\ UNCHANGED <<invitation_tokens, users, calls>>

\* The first address is absent, pending or confirmed; the second is absent.
InitSubscribers ==
    InitDatabase({seed \in Seeds : seed[1][2] = "absent" /\ ~seed[2]})

SpecSubscribers == InitSubscribers /\ [][NextSubscribers]_vars

\* subscribe: the upsert finds the row of its email inserted or locked by a
\* transaction in flight and waits for it.
SubscribeWait(r) ==
    LET req == requests[r] IN
    /\ req.kind = "subscribe" /\ req.pc = "insert_subscriber"
    /\ req.waited_on = 0
    /\ \E row \in subscriptions :
        /\ row.email = req.email
        /\ \E holder \in {row.xmin, row.lock} \ {0, r} :
              requests' = [requests EXCEPT ![r] = [req EXCEPT !.waited_on = holder]]
    /\ UNCHANGED <<subscriptions, subscription_tokens, idempotency>>

\* confirm: the DELETE finds the token row deleted by a transaction in
\* flight, or the UPDATE finds the subscriber's row locked by one, and waits
\* for it.
ConfirmWait(r) ==
    LET req == requests[r] IN
    /\ req.kind = "confirm"
    /\ req.waited_on = 0
    /\ \/ /\ req.pc = "delete_token"
          /\ \E row \in subscription_tokens :
              /\ row.subscription_token = req.subscription_token
              /\ row.xmin = 0 /\ row.xmax \notin {0, r}
              /\ requests' = [requests EXCEPT ![r] = [req EXCEPT !.waited_on = row.xmax]]
       \/ /\ req.pc = "confirm_subscriber"
          /\ \E row \in subscriptions :
              /\ row.id = req.subscriber_id
              /\ row.xmin = 0 /\ row.lock \notin {0, r}
              /\ requests' = [requests EXCEPT ![r] = [req EXCEPT !.waited_on = row.lock]]
    /\ UNCHANGED <<subscriptions, subscription_tokens, idempotency>>

\* The subscriber requests, with each wait of a request for another one
\* recorded in the request.
NextSubscribersRaces ==
    \/ NextSubscribers
    \/ /\ \E r \in 1..Len(requests) :
            \/ SubscribeWait(r)
            \/ ConfirmWait(r)
       /\ UNCHANGED <<invitation_tokens, users, calls>>

SpecSubscribersRaces == InitSubscribers /\ [][NextSubscribersRaces]_vars

\* The subscriber requests, with the failures of the database and of the
\* template engine.
NextSubscribersFaults ==
    /\ \/ NextSubscribers
       \/ /\ \E r \in 1..Len(requests) :
               \/ SubscribeFails(r)
               \/ ConfirmFails(r)
          /\ UNCHANGED <<invitation_tokens, users, calls>>
    /\ Len(requests') <= MaxFaultyRequests

SpecSubscribersFaults == InitSubscribers /\ [][NextSubscribersFaults]_vars

NextPublish ==
    /\ \/ PublishArrive
       \/ \E r \in 1..Len(requests) :
           \/ PublishWait(r)
           \/ PublishTryProcessing(r)
           \/ PublishDispatch(r)
           \/ PublishSave(r)
    /\ UNCHANGED <<invitation_tokens, users, calls>>

\* The first address is pending or confirmed; beside it there is nothing,
\* the second address confirmed, or the legacy row.
InitPublish ==
    InitDatabase({seed \in Seeds : /\ seed[1][1] # "absent"
                                   /\ seed[1][2] # "pending_confirmation"
                                   /\ ~(seed[2] /\ seed[1][2] = "confirmed")})

SpecPublish == InitPublish /\ [][NextPublish]_vars

\* The steps request r takes by itself once it has arrived: each await of
\* publish_newsletter is polled again by the runtime when it can go on.
PublishStep(r) ==
    /\ r \in DOMAIN requests
    /\ \/ PublishTryProcessing(r)
       \/ PublishDispatch(r)
       \/ PublishSave(r)
    /\ UNCHANGED <<invitation_tokens, users, calls>>

\* The runtime and the database are fair to every request: a request that
\* can go on does; the email client answers or times out on every POST.
FairPublish == \A r \in 1..MaxPublish : WF_vars(PublishStep(r))

SpecPublishFair == SpecPublish /\ FairPublish

NextInvite ==
    /\ \/ InviteArrive
       \/ \E r \in 1..Len(requests) :
           \/ InviteInsert(r)
           \/ InviteCommit(r)
           \/ InviteSend(r)
    /\ UNCHANGED <<subscriptions, subscription_tokens, idempotency, calls>>

\* No subscriber; the users are the admin and one collaborator.
InitInvite == InitDatabase({seed \in Seeds : seed[1][1] = "absent" /\ seed[1][2] = "absent"
                                               /\ ~seed[2]})

SpecInvite == InitInvite /\ [][NextInvite]_vars

NextRegister ==
    /\ \/ register_collaborator_form
       \/ RegisterArrive
       \/ \E r \in 1..Len(requests) :
           \/ RegisterRemove(r)
           \/ RegisterInsert(r)
           \/ RegisterCommit(r)
    /\ UNCHANGED <<subscriptions, subscription_tokens, idempotency, calls>>

\* Two invitations are stored; the users are the admin and one collaborator.
InitRegister ==
    /\ subscriptions = {}
    /\ subscription_tokens = {}
    /\ idempotency = {}
    /\ requests = <<>>
    /\ invitation_tokens = SeedInvitations
    /\ users = SeedUsers
    /\ calls = <<>>

SpecRegister == InitRegister /\ [][NextRegister]_vars

-----------------------------------------------------------------------------
(* EmailClient::send_email, called on its own *)

Call(fn, input, output) == [fn |-> fn, input |-> input, output |-> output]

\* One call of send_email against a provider that would give `answers`.
SendEmailCall ==
    \E answers \in ProviderAnswers :
        /\ Len(calls) < MaxCalls
        /\ calls' = Append(calls, Call("send_email", answers, send_email(answers)))

NextEmailClient ==
    /\ SendEmailCall
    /\ UNCHANGED <<subscriptions, subscription_tokens, idempotency, requests,
                   invitation_tokens, users>>

InitCalls ==
    /\ subscriptions = {}
    /\ subscription_tokens = {}
    /\ idempotency = {}
    /\ requests = <<>>
    /\ invitation_tokens = {}
    /\ users = SeedUsers
    /\ calls = <<>>

SpecEmailClient == InitCalls /\ [][NextEmailClient]_vars

-----------------------------------------------------------------------------
(* Token::parse, SubscriptionToken::parse and InvitationToken::parse *)

\* s with its i-th character replaced by c.
WithChar(s, i, c) == [s EXCEPT ![i] = c]

\* The strings handed to the parsers: runs of one alphanumeric character
\* around the required length, blank strings, strings of the required
\* length with one character that is not alphanumeric (a symbol, a blank,
\* a character outside ASCII) at either end or inside, strings whose length
\* in bytes is the required one and whose length in characters is not, and
\* the malformed token of the confirmation requests.
TokenInputs ==
    {Repeat(c, n) : c \in {"a", "Z", "7"},
                    n \in {0, 1, TokenLength - 1, TokenLength, TokenLength + 1}}
    \cup {Repeat(" ", 1), Repeat(" ", TokenLength)}
    \cup {WithChar(Repeat("a", TokenLength), i, c) :
             i \in {1, TokenLength \div 2, TokenLength}, c \in {"\"", " ", "U+00E9", "Z"}}
    \cup {WithChar(Repeat("7", TokenLength - 1), 1, "U+00E9"),
          Repeat("U+00E9", TokenLength \div 2),
          Repeat("U+00E9", TokenLength),
          MalformedToken}

TokenParseCall ==
    \E s \in TokenInputs :
        /\ Len(calls) < MaxParses
        /\ calls' = Append(calls, Call("Token::parse", s, Token_parse(s)))

SubscriptionTokenParseCall ==
    \E s \in TokenInputs :
        /\ Len(calls) < MaxParses
        /\ calls' = Append(calls, Call("SubscriptionToken::parse", s,
                                       SubscriptionToken_parse(s)))

InvitationTokenParseCall ==
    \E s \in TokenInputs :
        /\ Len(calls) < MaxParses
        /\ calls' = Append(calls, Call("InvitationToken::parse", s,
                                       InvitationToken_parse(s)))

NextParse ==
    /\ \/ TokenParseCall
       \/ SubscriptionTokenParseCall
       \/ InvitationTokenParseCall
    /\ UNCHANGED <<subscriptions, subscription_tokens, idempotency, requests,
                   invitation_tokens, users>>

SpecParse == InitCalls /\ [][NextParse]_vars

-----------------------------------------------------------------------------
(* ValidationCode::parse *)

\* The strings handed to ValidationCode::parse: runs of one digit around
\* the required length, six characters of which one is not a digit (a
\* letter, a symbol, a blank, a character outside ASCII) at either end or
\* inside, six bytes in five characters, six different digits, and the
\* strings of the tests.
CodeInputs ==
    {Repeat(c, n) : c \in {"0", "9"}, n \in {0, 1, CodeLength - 1, CodeLength, CodeLength + 1}}
    \cup {WithChar(Repeat("4", CodeLength), i, c) :
             i \in {1, CodeLength \div 2, CodeLength}, c \in {"d", "$", " ", "U+00E9", "8"}}
    \cup {WithChar(Repeat("4", CodeLength - 1), 1, "U+00E9"),
          Repeat(" ", CodeLength),
          <<"1", "5", "2", "3", "5", "4">>,
          <<"$", "#", "d", "@", "1", "1">>,
          MalformedCode}

ValidationCodeParseCall ==
    \E s \in CodeInputs :
        /\ Len(calls) < MaxParses
        /\ calls' = Append(calls, Call("ValidationCode::parse", s, ValidationCode_parse(s)))

NextCode ==
    /\ ValidationCodeParseCall
    /\ UNCHANGED <<subscriptions, subscription_tokens, idempotency, requests,
                   invitation_tokens, users>>

SpecCode == InitCalls /\ [][NextCode]_vars

-----------------------------------------------------------------------------
(* SubscriberName::parse *)

\* The strings handed to SubscriberName::parse: the empty string and blank
\* ones, runs of one character around the limit, 256 clusters in 257
\* characters and 257 clusters in 258, each forbidden character alone, at
\* the end of a name of 256 characters and inside one of 257, and names
\* with a blank at either end.
NameInputs ==
    {Repeat(c, n) : c \in {"a", "U+00E9"},
                    n \in {1, NameMaxGraphemes - 1, NameMaxGraphemes, NameMaxGraphemes + 1}}
    \cup {Repeat(" ", n) : n \in {0, 1, NameMaxGraphemes + 1}}
    \cup {Append(Repeat("a", NameMaxGraphemes), "U+0301"),
          Append(Append(Repeat("a", NameMaxGraphemes), "U+0301"), "a"),
          <<"U+0301">>}
    \cup {<<c>> : c \in FORBIDDEN_CHARS}
    \cup {WithChar(Repeat("a", NameMaxGraphemes), NameMaxGraphemes, "/"),
          WithChar(Repeat("a", NameMaxGraphemes + 1), 2, "/"),
          WithChar(Repeat(" ", NameMaxGraphemes + 1), 2, "/"),
          <<" ", "a">>, <<"a", " ">>, <<" ", "{">>}

SubscriberNameParseCall ==
    \E s \in NameInputs :
        /\ Len(calls) < MaxParses
        /\ calls' = Append(calls, Call("SubscriberName::parse", s, SubscriberName_parse(s)))

NextName ==
    /\ SubscriberNameParseCall
    /\ UNCHANGED <<subscriptions, subscription_tokens, idempotency, requests,
                   invitation_tokens, users>>

SpecName == InitCalls /\ [][NextName]_vars

-----------------------------------------------------------------------------
(* The value types: parse, then as_ref *)

\* Result::Ok(Self(s)) and Result::Err
Ok(value) == [ok |-> TRUE, value |-> value]

Err == [ok |-> FALSE, value |-> <<>>]

to_ascii_lowercase(s) == [i \in 1..Len(s) |-> IF s[i] = "Z" THEN "z" ELSE s[i]]

Email_new_Lowercase(s) == IF validate_email(s) THEN Ok(to_ascii_lowercase(s)) ELSE Err

\* Email::parse, with the value it builds.
Email_new(s) == IF validate_email(s) THEN Ok(s) ELSE Err

\* Token::parse, with the value it builds.
Token_new(s) == IF Token_parse(s) THEN Ok(s) ELSE Err

\* SubscriptionToken::parse, with the value it builds.
SubscriptionToken_new(s) == IF SubscriptionToken_parse(s) THEN Ok(s) ELSE Err

\* InvitationToken::parse: Token::parse(s).map(Self)
InvitationToken_new(s) ==
    LET token == Token_new(s) IN IF token.ok THEN Ok(token) ELSE Err

\* ValidationCode::parse, with the value it builds.
ValidationCode_new(s) == IF ValidationCode_parse(s) THEN Ok(s) ELSE Err

\* AsRef<str> for Email, Token, SubscriptionToken, ValidationCode: &self.0
as_ref(self) == self.value

\* AsRef<str> for InvitationToken: self.0.as_ref()
InvitationToken_as_ref(self) == as_ref(self.value)

\* What a caller sees of parse followed by as_ref.
Parsed(result, str) == [ok |-> result.ok, as_ref |-> IF result.ok THEN str ELSE <<>>]

\* The strings parsed and read back: addresses in lower and upper case,
\* with a blank, without "@"; tokens and codes, accepted and not.
RoundTripEmails ==
    {EmailA, <<"Z", "@", "x">>, <<"a", "@", "Z">>, <<"a", " ", "@", "x">>, <<" ", "a", "@", "x">>,
     EmailLegacy, <<"@", "x">>, <<>>}

RoundTripTokens ==
    {Repeat("a", TokenLength), Repeat("Z", TokenLength), Repeat("7", TokenLength),
     WithChar(Repeat("a", TokenLength), 1, "Z"),
     WithChar(Repeat("a", TokenLength), TokenLength, " "),
     Repeat("a", TokenLength - 1), MalformedToken}

RoundTripCodes ==
    {Repeat("0", CodeLength), <<"0", "1", "2", "3", "5", "4">>, Repeat("0", CodeLength + 1),
     MalformedCode}

EmailRoundTrip ==
    \E s \in RoundTripEmails :
        LET result == Email_new(s) IN
        /\ Len(calls) < MaxParses
        /\ calls' = Append(calls, Call("Email", s,
                        Parsed(result, IF result.ok THEN as_ref(result) ELSE <<>>)))

TokenRoundTrip ==
    \E s \in RoundTripTokens :
        LET result == Token_new(s) IN
        /\ Len(calls) < MaxParses
        /\ calls' = Append(calls, Call("Token", s,
                        Parsed(result, IF result.ok THEN as_ref(result) ELSE <<>>)))

SubscriptionTokenRoundTrip ==
    \E s \in RoundTripTokens :
        LET result == SubscriptionToken_new(s) IN
        /\ Len(calls) < MaxParses
        /\ calls' = Append(calls, Call("SubscriptionToken", s,
                        Parsed(result, IF result.ok THEN as_ref(result) ELSE <<>>)))

InvitationTokenRoundTrip ==
    \E s \in RoundTripTokens :
        LET result == InvitationToken_new(s) IN
        /\ Len(calls) < MaxParses
        /\ calls' = Append(calls, Call("InvitationToken", s,
                        Parsed(result, IF result.ok THEN InvitationToken_as_ref(result)
                                       ELSE <<>>)))

ValidationCodeRoundTrip ==
    \E s \in RoundTripCodes :
        LET result == ValidationCode_new(s) IN
        /\ Len(calls) < MaxParses
        /\ calls' = Append(calls, Call("ValidationCode", s,
                        Parsed(result, IF result.ok THEN as_ref(result) ELSE <<>>)))

NextRoundTrip ==
    /\ \/ EmailRoundTrip
       \/ TokenRoundTrip
       \/ SubscriptionTokenRoundTrip
       \/ InvitationTokenRoundTrip
       \/ ValidationCodeRoundTrip
    /\ UNCHANGED <<subscriptions, subscription_tokens, idempotency, requests,
                   invitation_tokens, users>>

SpecRoundTrip == InitCalls /\ [][NextRoundTrip]_vars

-----------------------------------------------------------------------------
(* The generators of tokens and codes *)

GenerateSubscriptionTokenCall ==
    \E n \in 1..Len(Alphanumeric) :
        /\ Len(calls) < MaxParses
        /\ calls' = Append(calls, Call("generate_subscription_token", n,
                                       generate_subscription_token(n)))

GenerateInvitationTokenCall ==
    \E n \in 1..Len(Alphanumeric) :
        /\ Len(calls) < MaxParses
        /\ calls' = Append(calls, Call("generate_invitation_token", n,
                                       generate_invitation_token(n)))

GenerateValidationCodeCall ==
    \E n \in 1..Len(Uniform09) :
        /\ Len(calls) < MaxParses
        /\ calls' = Append(calls, Call("generate_validation_code", n,
                                       generate_validation_code(n)))

NextGenerate ==
    /\ \/ GenerateSubscriptionTokenCall
       \/ GenerateInvitationTokenCall
       \/ GenerateValidationCodeCall
    /\ UNCHANGED <<subscriptions, subscription_tokens, idempotency, requests,
                   invitation_tokens, users>>

SpecGenerate == InitCalls /\ [][NextGenerate]_vars

-----------------------------------------------------------------------------
(* Vocabulary of the properties *)

Reqs == 1..Len(requests)

Publishes == {r \in Reqs : requests[r].kind = "publish"}

Subscribes == {r \in Reqs : requests[r].kind = "subscribe"}

Confirms == {r \in Reqs : requests[r].kind = "confirm"}

IsDone(r) == requests[r].pc = "done"

\* Request r returns its response in this step.
Returns(r) ==
    /\ r \in 1..Len(requests')
    /\ requests'[r].pc = "done"
    /\ (r \in Reqs => requests[r].pc # "done")

\* Request r leaves the step `pc` in this step.
Leaves(r, pc) == r \in Reqs /\ requests[r].pc = pc /\ requests'[r].pc # pc

SameKey(r1, r2) ==
    /\ requests[r1].user_id = requests[r2].user_id
    /\ requests[r1].idempotency_key = requests[r2].idempotency_key

\* The rows of table t for the key of request q.
RowsOfKey(t, q) ==
    {row \in t : row.user_id = q.user_id /\ row.idempotency_key = q.idempotency_key}

\* The committed rows of t that hold a response for the key of request q.
SavedFor(t, q) ==
    {row \in RowsOfKey(t, q) : row.xmin = 0 /\ row.response_status_code # 0}

\* The requests that completed a batch for the key of request r: they ran
\* the dispatch loop to its end and saved the response.
Batches(r) == {r1 \in Publishes : SameKey(r1, r) /\ requests[r1].saved}

\* The newsletter emails of a complete batch, in fetch order.
FullBatch(q) ==
    LET recipients == Recipients(q.subscribers)
    IN  [i \in 1..Len(recipients) |-> NewsletterEmail(recipients[i])]

IsPrefix(s, t) == Len(s) <= Len(t) /\ \A i \in 1..Len(s) : s[i] = t[i]

Committed(t) == {row \in t : row.xmin = 0}

-----------------------------------------------------------------------------
(* Properties of the publication pipeline (SpecPublish) *)

C1_Step ==
    \A r \in 1..Len(requests') :
        LET q == requests'[r] IN
        (q.kind = "publish" /\ Returns(r) /\ SavedFor(idempotency, q) # {})
        => /\ \E row \in SavedFor(idempotency, q) :
                q.response = [status |-> row.response_status_code,
                              headers |-> row.response_headers,
                              body |-> row.response_body]
           /\ q.response = see_other("/admin/newsletters")
           /\ q.posts = 0 /\ q.sent = <<>>
           /\ idempotency' = idempotency
           /\ \E r1 \in Publishes \ {r} :
                /\ requests'[r1] = requests[r1]
                /\ requests[r1].saved
                /\ requests[r1].response = q.response
                /\ {r2 \in 1..Len(requests') :
                        /\ requests'[r2].kind = "publish"
                        /\ requests'[r2].user_id = q.user_id
                        /\ requests'[r2].idempotency_key = q.idempotency_key
                        /\ requests'[r2].saved} = {r1}

\* C1: once a response is saved for (user_id, idempotency_key), every
\* publish request for that pair that returns afterwards returns the saved
\* response, which is the 303 the saving request returned; it has issued no
\* POST to the email provider and changes no idempotency row, and the
\* saving request remains the only one that completed a batch for the key.
C1_ReplayAfterSuccess == [][C1_Step]_vars

C1_Witness ==
    \E r1, r2 \in Publishes :
        /\ r1 < r2 /\ SameKey(r1, r2) /\ IsDone(r1) /\ IsDone(r2)
        /\ requests[r1].saved /\ requests[r1].sent # <<>>
        /\ requests[r2].waited_on = 0 /\ ~requests[r2].saved
        /\ requests[r2].response = requests[r1].response
        /\ requests[r2].response.status = 303
        /\ requests[r2].posts = 0

\* C2: when a publish request finds its key reserved by a request in flight
\* it waits; if that request completes (saves its response), the waiting
\* request returns the same response, issues no POST to the email provider
\* and does not reserve the key: one batch is completed for the key.
C2_ConcurrentSameKey ==
    \A r2 \in Publishes :
        LET q2 == requests[r2]
            r1 == q2.waited_on
        IN  (IsDone(r2) /\ r1 # 0 /\ requests[r1].saved)
            => /\ SameKey(r1, r2)
               /\ q2.response = requests[r1].response
               /\ q2.posts = 0 /\ q2.sent = <<>>
               /\ ~q2.saved
               /\ Batches(r2) = {r1}

C2_Witness ==
    \E r1, r2 \in Publishes :
        /\ requests[r2].waited_on = r1 /\ IsDone(r1) /\ IsDone(r2)
        /\ requests[r1].saved /\ requests[r1].sent # <<>>
        /\ requests[r2].response = requests[r1].response
        /\ requests[r2].response.status = 303
        /\ requests[r2].posts = 0


C3_Inv ==
    \A r \in Publishes :
        LET q == requests[r] IN
        /\ q.gateway_failed
           => /\ IsDone(r)
              /\ q.response.status = 500
              /\ ~q.saved
              /\ q.posts = Len(q.sent) + 1
              /\ IsPrefix(q.sent, FullBatch(q))
              /\ {row \in idempotency : row.xmin = r} = {}
        /\ (q.saved /\ \E r1 \in Publishes : SameKey(r1, r) /\ requests[r1].gateway_failed)
           => /\ q.sent = FullBatch(q)
              /\ \A r1 \in Publishes :
                    (SameKey(r1, r) /\ requests[r1].gateway_failed)
                    => \A i \in 1..Len(requests[r1].sent) :
                           \E j \in 1..Len(q.sent) : q.sent[j] = requests[r1].sent[i]

C3_Step ==
    \A r \in Publishes :
        LET q == requests[r] IN
        \* the attempt fails: no row is left for its key
        /\ (~q.gateway_failed /\ requests'[r].gateway_failed)
           => RowsOfKey(idempotency', q) = {}
        \* a retry after a failed attempt, no response saved: it reserves the
        \* key and runs the pipeline
        /\ (/\ Leaves(r, "try_processing")
            /\ RowsOfKey(idempotency, q) = {}
            /\ \E r1 \in Publishes : SameKey(r1, r) /\ requests[r1].gateway_failed)
           => /\ requests'[r].pc \in {"dispatch", "save_response"}
              /\ \E row \in RowsOfKey(idempotency', q) : row.xmin = r

\* C3: a failed dispatch ends the attempt at once (the failed POST is its
\* last), the request returns 500, it saves no response and no row is left
\* for its key; a later request with the same key reserves the key again,
\* and when it completes it has sent to every valid confirmed subscriber it
\* fetched, those the failed attempt had emailed included.
C3_DispatchFailure == [](C3_Inv) /\ [][C3_Step]_vars

C3_Witness ==
    \E r1, r2 \in Publishes :
        /\ SameKey(r1, r2)
        /\ requests[r1].gateway_failed /\ requests[r1].response.status = 500
        /\ Len(requests[r1].sent) = 1 /\ Len(FullBatch(requests[r1])) = 2
        /\ requests[r2].saved /\ Len(requests[r2].sent) = 2
        /\ SavedFor(idempotency, requests[r2]) # {}

\* C9: the emails a publish request has sent are, one each and in fetch
\* order, to the first valid addresses of the list it fetched; the list
\* holds exactly the committed confirmed subscribers, once each; no pending
\* subscriber is among the recipients; a completed batch has reached every
\* valid address of the list.
C9_RecipientsAreConfirmed ==
    \A r \in Publishes :
        LET q == requests[r] IN
        /\ Len(q.subscribers) =
               Cardinality({row \in Committed(subscriptions) : row.status = "confirmed"})
        /\ {q.subscribers[i] : i \in 1..Len(q.subscribers)} =
               {row.email : row \in {x \in Committed(subscriptions) : x.status = "confirmed"}}
        /\ IsPrefix(q.sent, FullBatch(q))
        /\ \A i \in 1..Len(q.sent) :
               /\ \E row \in Committed(subscriptions) :
                      row.email = q.sent[i].to /\ row.status = "confirmed"
               /\ ~\E row \in subscriptions :
                      row.email = q.sent[i].to /\ row.status = "pending_confirmation"
        /\ q.saved => q.sent = FullBatch(q)

C9_Witness ==
    \E r \in Publishes :
        /\ requests[r].saved /\ Len(requests[r].sent) = 1
        /\ \E row \in subscriptions : row.status = "pending_confirmation"

\* C10: a publish request gets past the key validation iff its key has 1
\* to 49 bytes; with any other key it returns 400, has issued no POST to the
\* email provider, and no idempotency row exists for its key.
C10_KeyValidation ==
    \A r \in Publishes :
        LET q == requests[r]
            rejected == IsDone(r) /\ q.response.status = 400
        IN  /\ ~rejected <=> (1 <= Len(q.idempotency_key) /\ Len(q.idempotency_key) <= 49)
            /\ rejected => /\ q.posts = 0 /\ q.sent = <<>>
                           /\ \A row \in idempotency :
                                  row.idempotency_key # q.idempotency_key

C10_Witness ==
    \E r1, r2 \in Publishes :
        /\ Len(requests[r1].idempotency_key) = 50 /\ requests[r1].response.status = 400
        /\ Len(requests[r2].idempotency_key) = 49 /\ requests[r2].saved

-----------------------------------------------------------------------------
(* Properties of subscription and confirmation (SpecSubscribers) *)

\* The committed token rows of t that hold `subscription_token`.
Stored(t, subscription_token) ==
    {row \in Committed(t) : row.subscription_token = subscription_token}

\* The confirm requests that returned 200 for the token of request q.
Redeemed(q) ==
    {r \in Confirms : /\ IsDone(r)
                      /\ requests[r].response.status = 200
                      /\ requests[r].subscription_token = q.subscription_token}

C4_Inv ==
    \A r \in Confirms :
        LET q == requests[r] IN
        /\ Cardinality(Redeemed(q)) <= 1
        /\ (IsDone(r) /\ q.response.status = 200)
           => /\ \A row \in subscription_tokens :
                    row.subscription_token # q.subscription_token
              /\ \E row \in Committed(subscriptions) :
                    row.id = q.subscriber_id /\ row.status = "confirmed"
        /\ (IsDone(r) /\ q.subscriber_id # 0) => q.response.status = 200

C4_Step ==
    \A r \in Confirms :
        LET q == requests[r] IN
        \* a stored token, which no transaction in flight has deleted, is
        \* deleted by the request
        /\ (Leaves(r, "delete_token") /\ Stored(subscription_tokens, q.subscription_token) # {})
           => /\ requests'[r].pc = "confirm_subscriber"
              /\ \E row \in Stored(subscription_tokens, q.subscription_token) :
                    requests'[r].subscriber_id = row.subscriber_id
              /\ \A row \in subscription_tokens' :
                    row.subscription_token = q.subscription_token => row.xmax = r
        \* after a 200 for the token, a confirm request with it returns 401
        /\ (Returns(r) /\ Redeemed(q) # {}) => requests'[r].response.status = 401
        \* a 401 changes nothing
        /\ (Returns(r) /\ requests'[r].response.status = 401)
           => /\ subscriptions' = subscriptions
              /\ subscription_tokens' = subscription_tokens
              /\ Stored(subscription_tokens, q.subscription_token) = {}

\* C4: a confirm request that finds its token stored deletes the token row,
\* sets the subscriber confirmed and returns 200; at most one confirm request
\* returns 200 for a given token; every confirm request with that token that
\* returns afterwards returns 401, and a 401 leaves both tables as they were.
C4_ConfirmOnce == [](C4_Inv) /\ [][C4_Step]_vars

C4_Witness ==
    \E r1, r2 \in Confirms :
        /\ r1 # r2 /\ IsDone(r1) /\ IsDone(r2)
        /\ requests[r1].subscription_token = requests[r2].subscription_token
        /\ requests[r1].response.status = 200
        /\ requests[r2].response.status = 401
        /\ \E row \in Committed(subscriptions) :
              row.id = requests[r1].subscriber_id /\ row.status = "confirmed"

\* C5: there is never more than one subscriber row for an email nor more
\* than one token row for a subscriber; a subscribe request that finds its
\* email stored and pending returns 200 (500 if the email provider fails
\* the send), having mailed one link and stored no token of its own.
C5_RepeatedSubscribe ==
    /\ \A row1, row2 \in subscriptions : row1.email = row2.email => row1 = row2
    /\ \A row1, row2 \in subscription_tokens :
          row1.subscriber_id = row2.subscriber_id => row1 = row2
    /\ \A r \in Subscribes :
        LET q == requests[r] IN
        (IsDone(r) /\ q.subscription_state = "Pending")
        => IF q.gateway_failed
           THEN q.response.status = 500
           ELSE /\ q.response.status = 200
                /\ q.posts = 1
                /\ q.sent = <<ConfirmationEmail(q.email, q.subscription_token)>>
                /\ \A row \in subscription_tokens : row.xmin # r

C5_Witness ==
    \E r1, r2 \in Subscribes :
        /\ r1 # r2 /\ IsDone(r1) /\ IsDone(r2)
        /\ requests[r1].email = requests[r2].email
        /\ requests[r1].name = requests[r2].name
        /\ requests[r1].subscription_state = "Inserted"
        /\ requests[r2].subscription_state = "Pending"
        /\ requests[r1].response.status = 200
        /\ requests[r2].response.status = 200
        /\ Cardinality({row \in subscriptions : row.email = requests[r1].email}) = 1
        /\ Cardinality({row \in subscription_tokens :
                            row.subscriber_id = requests[r1].subscriber_id}) = 1

C6_Inv ==
    \A r \in Subscribes :
        LET q == requests[r] IN
        (IsDone(r) /\ q.response.status = 406)
        => /\ q.posts = 0 /\ q.sent = <<>>
           /\ \E row \in Committed(subscriptions) :
                 row.email = q.email /\ row.status = "confirmed"
           /\ \A row \in subscription_tokens :
                 row.xmin # r /\ row.subscriber_id # q.subscriber_id

C6_Step ==
    \A r \in Subscribes :
        LET q == requests[r] IN
        (/\ Leaves(r, "insert_subscriber")
         /\ \E row \in Committed(subscriptions) :
               row.email = q.email /\ row.status = "confirmed")
        => /\ requests'[r].pc = "done"
           /\ requests'[r].response.status = 406
           /\ subscriptions' = subscriptions
           /\ subscription_tokens' = subscription_tokens

\* C6: a subscribe request that finds its email stored and confirmed returns
\* 406 at once; it has issued no POST to the email provider, no token row
\* is written, and the subscriber row is left as it was, confirmed.
C6_AlreadyConfirmed == [](C6_Inv) /\ [][C6_Step]_vars

C6_Witness ==
    \E r \in Subscribes :
        /\ IsDone(r) /\ requests[r].response.status = 406
        /\ requests[r].subscription_state = "Confirmed"
        /\ \E row \in Committed(subscriptions) :
              row.email = requests[r].email /\ row.status = "confirmed"

C7_Inv ==
    \A r \in Subscribes :
        LET q == requests[r] IN
        (IsDone(r) /\ q.subscription_state = "Inserted")
        => IF q.gateway_failed
           THEN q.response.status = 500
           ELSE /\ q.response.status = 200
                /\ q.subscriber_id = new_v4(r)
                /\ q.posts = 1
                /\ q.sent = <<ConfirmationEmail(q.email, q.subscription_token)>>
                /\ q.sent[1].link = build_confirmation_link(q.subscription_token)
                /\ Len(q.subscription_token) = 30
                /\ \A i \in 1..Len(q.subscription_token) :
                      is_ascii_alphanumeric(q.subscription_token[i])

C7_Step ==
    \A r \in Subscribes :
        LET q == requests[r] IN
        \* the email is not stored: the request inserts the subscriber
        /\ (/\ Leaves(r, "insert_subscriber")
            /\ \A row \in subscriptions : row.email # q.email)
           => /\ requests'[r].subscription_state = "Inserted"
              /\ requests'[r].pc = "store_token"
        \* the request returns 200: its rows are committed
        /\ (Returns(r) /\ q.subscription_state = "Inserted"
                /\ requests'[r].response.status = 200)
           => /\ {row \in subscriptions' : row.email = q.email} =
                    {SubscriptionRow(q.subscriber_id, q.email, q.name, r,
                                     "pending_confirmation", 0)}
              /\ {row \in subscription_tokens' : row.subscriber_id = q.subscriber_id} =
                    {TokenRow(q.subscription_token, q.subscriber_id, 0)}

\* C7: a subscribe request with a valid form that finds no row for its email
\* inserts the subscriber; unless the email provider fails the send, it
\* returns 200, and then there is exactly one row for the email, pending,
\* exactly one token row for that subscriber, its token 30 alphanumeric
\* characters, and the request has sent exactly one email, whose link embeds
\* that token.
C7_NewSubscriber == [](C7_Inv) /\ [][C7_Step]_vars

C7_Witness ==
    \E r \in Subscribes :
        /\ IsDone(r) /\ requests[r].subscription_state = "Inserted"
        /\ requests[r].response.status = 200
        /\ TokenRow(requests[r].sent[1].link.subscription_token, new_v4(r), 0)
               \in subscription_tokens
        /\ \E row \in Committed(subscriptions) :
              /\ row.id = new_v4(r) /\ row.email = requests[r].email
              /\ row.status = "pending_confirmation"

C8_Step ==
    \A row \in Committed(subscriptions) :
        \E next \in Committed(subscriptions') :
            /\ next.id = row.id
            /\ next.email = row.email
            /\ \/ next.status = row.status
               \/ /\ row.status = "pending_confirmation"
                  /\ next.status = "confirmed"
                  /\ \E r \in Confirms :
                        /\ Returns(r)
                        /\ requests'[r].response.status = 200
                        /\ \E token \in subscription_tokens :
                              /\ token.subscription_token = requests[r].subscription_token
                              /\ token.subscriber_id = row.id
                              /\ token.xmin = 0
                              /\ token.xmax = r

\* C8: in every step each committed subscriber row stays, with its id and
\* email; its status stays as it is, or goes from pending_confirmation to
\* confirmed in the step in which a confirm request returns 200 having
\* deleted a token row stored for that subscriber. (A confirmed row is hence
\* never pending again. The publish requests write no subscriber row.)
C8_StatusMonotonic == [][C8_Step]_vars

C8_Witness ==
    \E c \in Confirms, s \in Subscribes :
        /\ c < s /\ IsDone(c) /\ IsDone(s)
        /\ requests[c].response.status = 200
        /\ requests[s].response.status = 406
        /\ requests[s].subscriber_id = requests[c].subscriber_id
        /\ \E row \in Committed(subscriptions) :
              row.id = requests[c].subscriber_id /\ row.status = "confirmed"

-----------------------------------------------------------------------------
(* Access to the admin operations *)

\* C11: a publish request of a logged-in user whose role is not admin has
\* sent no email and has not got the 303 of a successful publication.
C11_PublishIsAdminOnly ==
    \A r \in Publishes :
        get_user_role(users, requests[r].user_id) # "admin"
        => /\ requests[r].sent = <<>>
           /\ requests[r].response.status # 303

Invites == {r \in Reqs : requests[r].kind = "invite"}

\* Request r has stored no invitation and sent no email.
NoInvitation(r) ==
    /\ \A row \in invitation_tokens :
          row.xmin # r /\ row.invitation_token # generate_invitation_token(r)
    /\ requests[r].sent = <<>>
    /\ requests[r].posts = 0

\* C12 as stated: an anonymous invite request is redirected to /login and
\* every invite request of a logged-in user who is not admin returns 405;
\* neither stores an invitation nor sends an email.
C12_AsStated ==
    \A r \in Invites :
        LET q == requests[r] IN
        /\ q.user_id = ""
           => IsDone(r) /\ q.response = see_other("/login") /\ NoInvitation(r)
        /\ (q.user_id # "" /\ get_user_role(users, q.user_id) # "admin")
           => IsDone(r) /\ q.response.status = 405 /\ NoInvitation(r)

\* C12, amended: an anonymous invite request is redirected (303) to /login;
\* an invite request of a logged-in user who is not admin returns 405 when
\* its body carries the email field, valid or not, and 400 when it does
\* not; none of them stores an invitation or sends an email.
C12_AdminSessionRequired ==
    \A r \in Invites :
        LET q == requests[r] IN
        /\ q.user_id = ""
           => IsDone(r) /\ q.response = see_other("/login") /\ NoInvitation(r)
        /\ (q.user_id # "" /\ get_user_role(users, q.user_id) # "admin")
           => /\ IsDone(r)
              /\ q.response.status = IF q.missing = {} THEN 405 ELSE 400
              /\ NoInvitation(r)

C12_Witness ==
    \E r1, r2 \in Invites :
        /\ requests[r1].user_id = "" /\ requests[r1].response.status = 303
        /\ requests[r2].user_id = "u2" /\ requests[r2].response.status = 405
        /\ requests[r2].email = EmailA
        /\ invitation_tokens = {}

\* C16: an invite request of an admin whose email is missing or invalid
\* returns 400 and stores and sends nothing; one whose email is valid stores
\* one invitation row and, unless the email provider fails the send (500),
\* returns 200 with the validation code of that row, a code of 6 digits,
\* having sent exactly one email, whose link carries the token of that row.
C16_Invite ==
    /\ Cardinality(invitation_tokens) =
           Cardinality({r \in Invites : requests[r].pc \in {"commit", "send"}
                                          \/ (IsDone(r) /\ requests[r].posts > 0)})
    /\ \A r \in Invites :
        LET q == requests[r] IN
        (q.user_id # "" /\ get_user_role(users, q.user_id) = "admin")
        => IF q.missing # {} \/ ~CollaboratorEmail_parse(q.email)
           THEN IsDone(r) /\ q.response.status = 400 /\ NoInvitation(r)
           ELSE IsDone(r)
                => IF q.gateway_failed
                   THEN q.response.status = 500
                   ELSE /\ q.response.status = 200
                        /\ ValidationCode_parse(q.response.body.validation_code)
                        /\ {row \in invitation_tokens :
                               row.invitation_token = q.sent[1].link.invitation_token} =
                              {InvitationRow(q.invitation_token,
                                             q.response.body.validation_code, 0)}
                        /\ q.sent = <<InvitationEmail(q.email, q.invitation_token)>>
                        /\ q.posts = 1

C16_Witness ==
    \E r1, r2 \in Invites :
        /\ IsDone(r1) /\ requests[r1].response.status = 200
        /\ Len(requests[r1].sent) = 1
        /\ InvitationRow(requests[r1].sent[1].link.invitation_token,
                         requests[r1].response.body.validation_code, 0) \in invitation_tokens
        /\ requests[r2].user_id = "u1" /\ requests[r2].response.status = 400

-----------------------------------------------------------------------------
(* Registration of collaborators *)

Registrations == {r \in 1..Len(requests) : requests[r].kind = "register"}

\* Request r has passed the checks made before the database is used: token
\* and code are well-formed, the password has a valid length.
WellFormedRegistration(q) ==
    /\ InvitationToken_parse(q.invitation_token)
    /\ ValidationCode_parse(q.validation_code)
    /\ PasswordMinLength <= Len(q.password)
    /\ Len(q.password) <= PasswordMaxLength

\* A row with this token and this code is stored.
PairStored(invitation_token, validation_code) ==
    \E row \in invitation_tokens : /\ row.invitation_token = invitation_token
                                   /\ row.validation_code = validation_code

\* Request r takes its DELETE step.
Removes(r) ==
    /\ r \in Registrations
    /\ requests[r].pc = "remove_invitation_token"
    /\ requests'[r].pc # "remove_invitation_token"

\* C13: a well-formed registration (token, code, password length) whose
\* pair of token and code matches no stored row, because the token is
\* unknown or is stored with another code, is answered 401; it creates no
\* user and deletes no invitation row.
C13_UnmatchedPair ==
    /\ [][\A r \in 1..Len(requests) :
            (Removes(r) /\ ~PairStored(requests[r].invitation_token,
                                       requests[r].validation_code))
            => /\ requests'[r].pc = "done"
               /\ requests'[r].response.status = 401
               /\ users' = users
               /\ invitation_tokens' = invitation_tokens]_vars
    /\ [](\A r \in Registrations :
            (WellFormedRegistration(requests[r])
             /\ ~\E row \in SeedInvitations :
                    /\ row.invitation_token = requests[r].invitation_token
                    /\ row.validation_code = requests[r].validation_code)
            => /\ requests[r].pc \in {"remove_invitation_token", "done"}
               /\ requests[r].pc = "done" => requests[r].response.status = 401
               /\ \A row \in users : row.xmin # r /\ row.user_id # new_user_id(r)
               /\ \A row \in invitation_tokens : row.xmax # r)

\* An unknown token, and a stored token with the code of the other
\* invitation, have both been answered 401 with both invitations stored.
C13_Witness ==
    /\ \E r \in Registrations :
          /\ requests[r].invitation_token = TokenUnknown
          /\ requests[r].pc = "done" /\ requests[r].response.status = 401
    /\ \E r \in Registrations :
          /\ requests[r].invitation_token = TokenInvited
          /\ requests[r].validation_code = CodeInvitedToo
          /\ requests[r].pc = "done" /\ requests[r].response.status = 401
    /\ invitation_tokens = SeedInvitations
    /\ users = SeedUsers

\* A registration with this token has been answered 200.
Registered(invitation_token) ==
    \E r \in Registrations : /\ requests[r].pc = "done"
                             /\ requests[r].response.status = 200
                             /\ requests[r].invitation_token = invitation_token

\* Request q is answered in this step.
AnsweredNow(q) ==
    /\ q \in 1..Len(requests')
    /\ requests'[q].pc = "done"
    /\ (q > Len(requests) \/ requests[q].pc # "done")

\* The user request r registers, as a stored row.
Collaborator(r) == UserRow(new_user_id(r), requests[r].username, "collaborator", 0)

\* A registration whose pair is stored deletes the row and goes on to the
\* insertion; with an unused username it goes on to commit; the commit
\* answers 200, adds exactly the one user and removes the row, both hidden
\* from every other transaction until then.
RegistersStep ==
    \A r \in Registrations :
        /\ (Removes(r) /\ PairStored(requests[r].invitation_token,
                                      requests[r].validation_code))
           => /\ requests'[r].pc = "insert_collaborator"
              /\ \E row \in invitation_tokens' :
                    /\ row.invitation_token = requests[r].invitation_token
                    /\ row.xmax = r
        /\ (/\ requests[r].pc = "insert_collaborator"
            /\ requests'[r].pc # "insert_collaborator"
            /\ \A row \in users : row.username # requests[r].username)
           => /\ requests'[r].pc = "commit"
              /\ users' = users \cup {[Collaborator(r) EXCEPT !.xmin = r]}
        /\ (requests[r].pc = "commit" /\ requests'[r].pc # "commit")
           => /\ requests'[r].pc = "done"
              /\ requests'[r].response.status = 200
              /\ [Collaborator(r) EXCEPT !.xmin = r] \in users
              /\ users' = (users \ {[Collaborator(r) EXCEPT !.xmin = r]})
                            \cup {Collaborator(r)}
              /\ \E row \in invitation_tokens :
                    /\ row.invitation_token = requests[r].invitation_token
                    /\ row.validation_code = requests[r].validation_code
                    /\ row.xmax = r
                    /\ invitation_tokens' = invitation_tokens \ {row}

\* After the 200: the one user is stored, the invitation is not.
RegisteredInv ==
    \A r \in Registrations :
        (requests[r].pc = "done" /\ requests[r].response.status = 200)
        => /\ {row \in users : row.username = requests[r].username
                                 \/ row.user_id = new_user_id(r)} = {Collaborator(r)}
           /\ \A row \in invitation_tokens :
                 row.invitation_token # requests[r].invitation_token

\* C14 as stated: a matching pair with a valid password and an unused
\* username is answered 200, stores exactly one user, a collaborator, and
\* deletes the invitation in the same transaction; every registration POST
\* and every form request with that token answered after it is answered 401.
C14_AsStated ==
    /\ [](RegisteredInv)
    /\ [][RegistersStep]_vars
    /\ [][\A q \in 1..Len(requests') :
            (/\ AnsweredNow(q)
             /\ requests'[q].kind \in {"register", "register_form"}
             /\ Registered(requests'[q].invitation_token))
            => requests'[q].response.status = 401]_vars

\* C14, amended: as stated, but of the registration POSTs answered after
\* the 200 only those with a well-formed code and a password of valid length
\* are answered 401; no later POST with that token is answered 200 or
\* changes users or invitations. Every later form request is answered 401.
C14_OneTime ==
    /\ [](RegisteredInv)
    /\ [][RegistersStep]_vars
    /\ [][\A q \in 1..Len(requests') :
            (/\ AnsweredNow(q)
             /\ requests'[q].kind \in {"register", "register_form"}
             /\ Registered(requests'[q].invitation_token))
            => /\ requests'[q].response.status # 200
               /\ {row \in users' : row.xmin = 0} = {row \in users : row.xmin = 0}
               /\ invitation_tokens' = invitation_tokens
               /\ (requests'[q].kind = "register_form"
                   \/ WellFormedRegistration(requests'[q]))
                  => requests'[q].response.status = 401]_vars

\* A registration was answered 200; after it a well-formed registration and
\* a form request with the same token were each answered 401.
C14_Witness ==
    /\ Len(requests) = 3
    /\ requests[1].kind = "register"
    /\ requests[1].response.status = 200
    /\ requests[2].kind = "register"
    /\ requests[2].invitation_token = requests[1].invitation_token
    /\ WellFormedRegistration(requests[2])
    /\ requests[2].response.status = 401
    /\ requests[3].kind = "register_form"
    /\ requests[3].invitation_token = requests[1].invitation_token
    /\ requests[3].response.status = 401
    /\ Collaborator(1) \in users

\* Request q is a registration answered in this step with the redirect to
\* the registration form.
TurnedAway(q) ==
    /\ AnsweredNow(q)
    /\ requests'[q].kind = "register"
    /\ requests'[q].response = see_other("/collaborator")

\* C15: a registration turned away with the redirect to /collaborator,
\* for a password shorter than 8 or longer than 64 or for a username in
\* use, does not consume the invitation: the row is stored as before, the
\* form is still served for its token, no user is created.
C15_TurnedAwayKeepsInvitation ==
    /\ [][\A q \in 1..Len(requests') :
            TurnedAway(q)
            => /\ users' = {row \in users : row.xmin # q}
               /\ \A row \in users' : row.user_id # new_user_id(q)
               /\ invitation_tokens' =
                      {[row EXCEPT !.xmax = IF @ = q THEN 0 ELSE @] : row \in invitation_tokens}
               /\ \A row \in invitation_tokens' : row.xmax # q
               /\ (q <= Len(requests) /\ requests[q].pc = "insert_collaborator")
                  => /\ \E row \in invitation_tokens' :
                           /\ row.invitation_token = requests'[q].invitation_token
                           /\ row.validation_code = requests'[q].validation_code
                           /\ row.xmin = 0 /\ row.xmax = 0
                     /\ contains_invitation_token(invitation_tokens',
                                                  requests'[q].invitation_token)
               /\ contains_invitation_token(invitation_tokens,
                                            requests'[q].invitation_token)
                  => contains_invitation_token(invitation_tokens',
                                               requests'[q].invitation_token)]_vars
    /\ [](\A r \in Registrations :
            (requests[r].pc = "done" /\ requests[r].response = see_other("/collaborator"))
            => /\ \A row \in users : row.user_id # new_user_id(r) /\ row.xmin # r
               /\ \A row \in invitation_tokens : row.xmax # r)

\* A registration with a username in use and one with a password too short
\* were turned away; the form is then served for the token.
C15_Witness ==
    /\ Len(requests) = 3
    /\ requests[1].kind = "register"
    /\ requests[1].username = "ursula"
    /\ requests[1].response = see_other("/collaborator")
    /\ requests[2].kind = "register"
    /\ Len(requests[2].password) = PasswordMinLength - 1
    /\ requests[2].invitation_token = requests[1].invitation_token
    /\ requests[2].response = see_other("/collaborator")
    /\ requests[3].kind = "register_form"
    /\ requests[3].invitation_token = requests[1].invitation_token
    /\ requests[3].response.status = 200
    /\ invitation_tokens = SeedInvitations
    /\ users = SeedUsers

\* C18: the form request is answered 400 when the token is missing or
\* malformed, 401 when it is well-formed and not stored, 200 when it is
\* stored; it leaves the invitations (and the users) as they are, so a
\* stored token stays usable whatever the number of form requests.
C18_FormReadsOnly ==
    [][\A q \in 1..Len(requests') :
        (AnsweredNow(q) /\ requests'[q].kind = "register_form")
        => /\ invitation_tokens' = invitation_tokens
           /\ users' = users
           /\ requests'[q].response.status =
                 CASE requests'[q].missing # {} -> 400
                   [] ~(/\ Len(requests'[q].invitation_token) = 30
                        /\ \A i \in 1..Len(requests'[q].invitation_token) :
                              requests'[q].invitation_token[i]
                                  \in AsciiLetters \cup AsciiDigits) -> 400
                   [] ~\E row \in invitation_tokens :
                          row.invitation_token = requests'[q].invitation_token -> 401
                   [] OTHER -> 200]_vars

\* The form was served twice for a token, and the registration with that
\* token then succeeded.
C18_Witness ==
    /\ Len(requests) = 3
    /\ requests[1].kind = "register_form" /\ requests[1].response.status = 200
    /\ requests[2].kind = "register_form" /\ requests[2].response.status = 200
    /\ requests[2].invitation_token = requests[1].invitation_token
    /\ requests[3].kind = "register" /\ requests[3].response.status = 200
    /\ requests[3].invitation_token = requests[1].invitation_token

-----------------------------------------------------------------------------
(* Confirmation links that are refused *)

\* C17: a confirmation whose token is malformed is answered 400; one whose
\* token is well-formed and not stored is answered 401; neither changes a
\* subscriber's status or a token row.
C17_RefusedConfirmation ==
    /\ [][\A q \in 1..Len(requests') :
            (AnsweredNow(q) /\ requests'[q].kind = "confirm")
            => LET token == requests'[q].subscription_token
                   wellFormed == /\ Len(token) = 30
                                 /\ \A i \in 1..Len(token) :
                                       token[i] \in AsciiLetters \cup AsciiDigits
               IN  /\ ~wellFormed
                      => /\ requests'[q].response.status = 400
                         /\ subscriptions' = subscriptions
                         /\ subscription_tokens' = subscription_tokens
                   /\ (wellFormed /\ Stored(subscription_tokens, token) = {})
                      => /\ requests'[q].response.status = 401
                         /\ subscriptions' = subscriptions
                         /\ subscription_tokens' = subscription_tokens]_vars
    /\ [](\A r \in Confirms :
            (IsDone(r) /\ requests[r].response.status \in {400, 401})
            => /\ \A row \in subscriptions : row.lock # r
               /\ \A row \in subscription_tokens : row.xmax # r)

\* A malformed token was answered 400 and a well-formed token that is not
\* stored 401, while a pending subscriber and its token row stay stored.
C17_Witness ==
    /\ \E r \in Confirms :
          /\ requests[r].subscription_token = MalformedToken
          /\ IsDone(r) /\ requests[r].response.status = 400
    /\ \E r \in Confirms :
          /\ SubscriptionToken_parse(requests[r].subscription_token)
          /\ IsDone(r) /\ requests[r].response.status = 401
    /\ \E row \in subscriptions : row.status = "pending_confirmation" /\ row.xmin = 0
    /\ \E row \in subscription_tokens : row.xmin = 0 /\ row.xmax = 0

-----------------------------------------------------------------------------
(* The email client and the token types *)

C20_TokenParse ==
    \A i \in 1..Len(calls) :
        calls[i].fn \in {"Token::parse", "SubscriptionToken::parse", "InvitationToken::parse"}
        => (calls[i].output
            <=> /\ Len(calls[i].input) = 30
                /\ \A k \in 1..Len(calls[i].input) :
                      calls[i].input[k] \in AsciiLetters \cup AsciiDigits)

\* A string of 30 letters and digits was accepted, and a string of 30 bytes
\* in 29 characters was rejected.
C20_Witness ==
    /\ \E i \in 1..Len(calls) : Len(calls[i].input) = 30 /\ calls[i].output
    /\ \E i \in 1..Len(calls) :
          /\ calls[i].fn = "InvitationToken::parse"
          /\ Len(calls[i].input) = 29
          /\ str_len(calls[i].input) = 30
          /\ ~calls[i].output

\* C21: ValidationCode::parse accepts a string exactly when it has 6
\* characters, each of them one of the ten ASCII digits; every other string
\* is rejected.
C21_ValidationCodeParse ==
    \A i \in 1..Len(calls) :
        calls[i].fn = "ValidationCode::parse"
        => (calls[i].output
            <=> /\ Len(calls[i].input) = 6
                /\ \A k \in 1..Len(calls[i].input) :
                      calls[i].input[k] \in {"0", "1", "2", "3", "4", "5", "6", "7", "8", "9"})

\* The code 152354 was accepted; five digits were rejected.
C21_Witness ==
    /\ \E i \in 1..Len(calls) :
          /\ calls[i].fn = "ValidationCode::parse"
          /\ calls[i].input = <<"1", "5", "2", "3", "5", "4">>
          /\ calls[i].output
    /\ \E i \in 1..Len(calls) :
          /\ calls[i].fn = "ValidationCode::parse"
          /\ Len(calls[i].input) = 5
          /\ ~calls[i].output

\* The number of grapheme clusters of a name: its characters, less the
\* combining accents that follow another character.
Clusters(s) == Len(s) - Cardinality({i \in 2..Len(s) : s[i] = "U+0301"})

RoundTrips == {"Email", "Token", "SubscriptionToken", "InvitationToken", "ValidationCode"}

\* C23: for Email, Token, SubscriptionToken, InvitationToken and
\* ValidationCode, as_ref of the value parse builds from an accepted string
\* is that string, character for character: nothing is trimmed or
\* normalised.
C23_ParseAsRef ==
    \A i \in 1..Len(calls) :
        (calls[i].fn \in RoundTrips /\ calls[i].output.ok)
        => /\ Len(calls[i].output.as_ref) = Len(calls[i].input)
           /\ \A k \in 1..Len(calls[i].input) : calls[i].output.as_ref[k] = calls[i].input[k]

\* An address and a token with an upper-case letter were accepted and read
\* back.
C23_Witness ==
    /\ \E i \in 1..Len(calls) :
          /\ calls[i].fn = "Email" /\ calls[i].output.ok
          /\ \E k \in 1..Len(calls[i].input) : calls[i].input[k] = "Z"
    /\ \E i \in 1..Len(calls) :
          /\ calls[i].fn = "InvitationToken" /\ calls[i].output.ok
          /\ \E k \in 1..Len(calls[i].input) : calls[i].input[k] = "Z"

-----------------------------------------------------------------------------
(* The idempotency records of the publication pipeline *)

\* The publish requests that reserved and saved the row: same user and key,
\* returned after save_response.
SaversOf(row) ==
    {r \in Publishes : /\ requests[r].user_id = row.user_id
                        /\ requests[r].idempotency_key = row.idempotency_key
                        /\ requests[r].saved}

C24_Inv ==
    \A row \in idempotency :
        \* a stored response: the row is committed, and the one request that
        \* saved it ran its dispatch loop to the end without a failure
        /\ row.response_status_code # 0
           => /\ row.xmin = 0
              /\ Cardinality(SaversOf(row)) = 1
              /\ \A r \in SaversOf(row) :
                    /\ IsDone(r)
                    /\ ~requests[r].gateway_failed
                    /\ requests[r].sent = FullBatch(requests[r])
                    /\ requests[r].posts = Len(FullBatch(requests[r]))
                    /\ requests[r].response.status = row.response_status_code
        \* a reserved row: its transaction is open, in the dispatch loop or
        \* about to save
        /\ row.response_status_code = 0
           => /\ row.xmin \in Publishes
              /\ requests[row.xmin].pc \in {"dispatch", "save_response"}
              /\ requests[row.xmin].user_id = row.user_id
              /\ requests[row.xmin].idempotency_key = row.idempotency_key

\* A row becomes committed only in the step in which its request leaves
\* save_response.
C24_Step ==
    \A row \in idempotency' :
        (row.xmin = 0 /\ row \notin idempotency)
        => \E r \in Publishes :
              /\ Leaves(r, "save_response")
              /\ requests'[r].saved
              /\ \E old \in idempotency :
                    /\ old.xmin = r
                    /\ old.user_id = row.user_id
                    /\ old.idempotency_key = row.idempotency_key
                    /\ old.response_status_code = 0

\* C24: a response is stored for (user_id, idempotency_key) only when the
\* request that reserved the key has run its dispatch loop to the end without
\* error: a stored response implies that this request sent one email to every
\* valid confirmed subscriber it fetched; and the reserving transaction is
\* committed by save_response only, so a committed row always holds a
\* response.
C24_SavedAfterFullDispatch == [](C24_Inv) /\ [][C24_Step]_vars

\* A response is stored for a key whose request sent two emails, while
\* another request, holding a reservation, is in its dispatch loop.
C24_Witness ==
    /\ \E row \in idempotency :
          /\ row.response_status_code # 0
          /\ \E r \in SaversOf(row) : Len(requests[r].sent) = 2
    /\ \E row \in idempotency :
          /\ row.response_status_code = 0
          /\ requests[row.xmin].pc = "dispatch"
          /\ requests[row.xmin].posts = 1

-----------------------------------------------------------------------------
(* Subscribers and their tokens, as committed *)

\* The committed token rows of subscriber `id`.
TokensOf(id) == {row \in Committed(subscription_tokens) : row.subscriber_id = id}

\* C25: in every committed state of the database a subscriber in
\* pending_confirmation has exactly one token row and a confirmed subscriber
\* has none: the token is committed with the subscriber's insertion, and its
\* deletion with the change of status.
C25_TokenPerPendingSubscriber ==
    \A row \in Committed(subscriptions) :
        /\ row.status = "pending_confirmation" => Cardinality(TokensOf(row.id)) = 1
        /\ row.status = "confirmed" => TokensOf(row.id) = {}

\* A subscriber stored by a subscribe request is confirmed and has no
\* token, while another is pending with its one token.
C25_Witness ==
    /\ \E row \in Committed(subscriptions) :
          /\ row.status = "confirmed"
          /\ \E r \in Subscribes : requests[r].subscriber_id = row.id /\ IsDone(r)
          /\ \E r \in Confirms : requests[r].subscriber_id = row.id /\ IsDone(r)
    /\ \E row \in Committed(subscriptions) :
          /\ row.status = "pending_confirmation"
          /\ Cardinality(TokensOf(row.id)) = 1

-----------------------------------------------------------------------------
(* Failed subscriber requests (SpecSubscribersFaults) *)

\* What the other transactions see of the two tables.
Visible(t) == {[x \in DOMAIN row \ {"lock", "new_status", "xmax"} |-> row[x]] :
                  row \in Committed(t)}

\* Nothing of transaction r is left in the tables of the next state.
NothingOf(r) ==
    /\ \A row \in subscriptions' : row.xmin # r /\ row.lock # r
    /\ \A row \in subscription_tokens' : row.xmin # r /\ row.xmax # r

C26_Step ==
    \A r \in Reqs :
        LET q == requests[r] IN
        \* subscribe: a failure after the upsert
        /\ (/\ q.kind = "subscribe"
            /\ q.pc \in {"store_token", "get_token", "send", "commit"}
            /\ Returns(r)
            /\ requests'[r].response.status # 200)
           => /\ requests'[r].response.status = 500
              /\ NothingOf(r)
              /\ Visible(subscriptions') = Visible(subscriptions)
              /\ Visible(subscription_tokens') = Visible(subscription_tokens)
              /\ \A row \in subscriptions' : row.id # new_v4(r)
        \* confirm: a failure before the commit
        /\ (/\ q.kind = "confirm"
            /\ Returns(r)
            /\ requests'[r].response.status = 500)
           => /\ NothingOf(r)
              /\ Visible(subscriptions') = Visible(subscriptions)
              /\ Visible(subscription_tokens') = Visible(subscription_tokens)
              /\ \A row \in subscription_tokens :
                    row.xmax = r => [row EXCEPT !.xmax = 0] \in subscription_tokens'
              /\ \A row \in subscriptions :
                    row.lock = r => \E now \in subscriptions' :
                                       now.id = row.id /\ now.status = row.status
                                       /\ now.new_status = row.status /\ now.lock = 0

C26_Inv ==
    \A r \in Reqs :
        (IsDone(r) /\ requests[r].kind \in {"subscribe", "confirm"}
         /\ requests[r].response.status = 500)
        => /\ \A row \in subscriptions : row.xmin # r /\ row.lock # r /\ row.id # new_v4(r)
           /\ \A row \in subscription_tokens : row.xmin # r /\ row.xmax # r

\* C26: a subscribe request that fails after its upsert, at store_token,
\* at the token lookup, at the rendering of the email, at its dispatch or at
\* the commit, returns 500 and leaves no subscriber row and no token row of
\* its own visible; a confirm request that fails before its commit leaves
\* the token row and the subscriber's status as they were.
C26_FailureLeavesNothing == [](C26_Inv) /\ [][C26_Step]_vars

\* A subscribe has failed at its commit, the email sent, and no row of it
\* is stored; a confirm has failed after deleting the token of a subscriber
\* who is still pending with that token.
C26_Witness ==
    /\ \E r \in Subscribes :
          /\ IsDone(r) /\ requests[r].response.status = 500
          /\ requests[r].subscription_state = "Inserted"
          /\ Len(requests[r].sent) = 1
          /\ \A row \in subscriptions : row.email # requests[r].email
    /\ \E r \in Confirms :
          /\ IsDone(r) /\ requests[r].response.status = 500
          /\ requests[r].subscriber_id # 0
          /\ \E row \in Committed(subscriptions) :
                /\ row.id = requests[r].subscriber_id
                /\ row.status = "pending_confirmation"
                /\ \E t \in Committed(subscription_tokens) :
                      /\ t.subscriber_id = row.id /\ t.xmax = 0
                      /\ t.subscription_token = requests[r].subscription_token

-----------------------------------------------------------------------------
(* Failed invitations *)

\* C27: an invite request that ends with a 500 because the invitation
\* email could not be sent leaves no invitation row: a row is stored only
\* for a request whose email was sent.
C27_FailedInviteStoresNothing ==
    \A r \in Invites :
        /\ (IsDone(r) /\ requests[r].response.status = 500)
           => \A row \in invitation_tokens :
                 row.invitation_token # requests[r].invitation_token
        /\ (IsDone(r) /\ \E row \in invitation_tokens :
                             row.invitation_token = requests[r].invitation_token)
           => requests[r].sent = <<InvitationEmail(requests[r].email,
                                                  requests[r].invitation_token)>>

-----------------------------------------------------------------------------
(* The order of the steps of a publish request *)

\* Request r holds or has held the reservation of its key: it is in the
\* dispatch loop, about to save, or has ended there.
Reserved(r) ==
    \/ requests[r].pc \in {"dispatch", "save_response"}
    \/ requests[r].saved
    \/ requests[r].gateway_failed

\* C28: a publish request validates its key, then begins processing, then
\* fetches the confirmed subscribers, then dispatches, then saves the
\* response: a request whose key is malformed (400) and a request that
\* returns a saved response have not read the subscribers.
C28_PipelineOrder ==
    \A r \in Publishes :
        LET q == requests[r] IN
        /\ q.fetched => IdempotencyKey_try_from(q.idempotency_key) /\ Reserved(r)
        /\ (IsDone(r) /\ q.response.status = 400) => ~q.fetched
        /\ (IsDone(r) /\ q.response.status = 303 /\ ~q.saved) => ~q.fetched
        /\ q.posts > 0 => Reserved(r)
        /\ q.saved => q.sent = FullBatch(q)

-----------------------------------------------------------------------------
(* Subscribing again while pending *)

\* The subscribe requests that landed on a pending subscriber.
Resubscribes == {r \in Subscribes : requests[r].subscription_state = "Pending"}

C29_Inv ==
    \A r \in Resubscribes :
        LET q == requests[r] IN
        \* no token is generated or stored by the request
        /\ \A row \in subscription_tokens : row.xmin # r
        /\ q.subscription_token # generate_subscription_token(r)
        \* the email carries the token fetched, which is the one mailed by the
        \* subscribe that stored the subscriber
        /\ q.sent # <<>> => q.sent = <<ConfirmationEmail(q.email, q.subscription_token)>>
        /\ \A r0 \in Subscribes :
              (/\ requests[r0].subscription_state = "Inserted"
               /\ requests[r0].subscriber_id = q.subscriber_id
               /\ q.subscription_token # <<>>)
              => /\ q.subscription_token = requests[r0].subscription_token
                 /\ q.sent # <<>> => q.sent = requests[r0].sent

C29_Step ==
    \A r \in Reqs :
        (requests'[r].subscription_state = "Pending" /\ requests'[r] # requests[r])
        => /\ subscription_tokens' = subscription_tokens
           /\ Leaves(r, "get_token") /\ requests'[r].pc = "send"
              => \E row \in Committed(subscription_tokens) :
                    /\ row.subscriber_id = requests[r].subscriber_id
                    /\ row.subscription_token = requests'[r].subscription_token

\* C29: a subscribe request that lands on a pending subscriber sends the
\* confirmation email with the token stored for that subscriber, the one
\* the first subscribe mailed; it generates no token and leaves the token
\* table unchanged.
C29_ResubscribeReusesToken == [](C29_Inv) /\ [][C29_Step]_vars

\* A subscriber was stored by one request and, still pending, subscribed
\* again: both requests returned 200 having sent the same email.
C29_Witness ==
    \E r0 \in Subscribes, r \in Resubscribes :
        /\ requests[r0].subscription_state = "Inserted"
        /\ requests[r0].subscriber_id = requests[r].subscriber_id
        /\ IsDone(r0) /\ requests[r0].response.status = 200
        /\ IsDone(r) /\ requests[r].response.status = 200
        /\ Len(requests[r].sent) = 1
        /\ requests[r].sent = requests[r0].sent
        /\ Cardinality(subscription_tokens) = 1

-----------------------------------------------------------------------------
(* The key of an idempotency record *)

\* Request r returned a saved response.
Replayed(r) ==
    /\ IsDone(r)
    /\ requests[r].response.status = 303
    /\ ~requests[r].saved

\* C30: idempotency records are keyed by (user_id, idempotency_key): a
\* request is answered with a saved response only if a request of the same
\* user with the same key saved it, so a request of another user with that
\* key, like a request of the same user with another key, reserves its own
\* record and sends its own batch; there is one record per pair.
C30_KeyedByUserAndKey ==
    /\ \A r \in Publishes :
          LET q == requests[r] IN
          /\ Replayed(r) => \E r1 \in Publishes \ {r} : SameKey(r1, r) /\ requests[r1].saved
          /\ q.saved
             => /\ q.sent = FullBatch(q) /\ q.posts = Len(FullBatch(q))
                /\ Cardinality(RowsOfKey(idempotency, q)) = 1
                /\ \A r1 \in Publishes \ {r} : requests[r1].saved => ~SameKey(r1, r)
          /\ \A row \in idempotency :
                row.xmin = r => row.user_id = q.user_id
                                /\ row.idempotency_key = q.idempotency_key
    /\ \A row1, row2 \in idempotency :
          (row1.user_id = row2.user_id /\ row1.idempotency_key = row2.idempotency_key)
          => row1 = row2

\* Two users have published with the same key: each has sent its own
\* batch and saved its own record.
C30_Witness ==
    \E r1, r2 \in Publishes :
        /\ requests[r1].user_id # requests[r2].user_id
        /\ requests[r1].idempotency_key = requests[r2].idempotency_key
        /\ r1 < r2 /\ IsDone(r1) /\ requests[r2].saved /\ requests[r1].saved
        /\ requests[r1].sent # <<>> /\ requests[r2].sent # <<>>
        /\ Cardinality(idempotency) = 2

-----------------------------------------------------------------------------
(* A stored address that is no email address *)

\* The positions of the fetched list of q whose address parses.
ValidFetched(q) == {i \in 1..Len(q.subscribers) : SubscriberEmail_parse(q.subscribers[i])}

\* C31: a confirmed subscriber whose stored email does not parse is skipped
\* and is not fatal to the batch: no email goes to it and no POST is issued
\* for it, a request answers 500 only after a failed send, and a request
\* whose sends were all accepted has sent one email to every valid address
\* it fetched, saved the response and answered 303.
C31_InvalidSubscriberSkipped ==
    \A r \in Publishes :
        LET q == requests[r] IN
        /\ \A i \in 1..Len(q.sent) : SubscriberEmail_parse(q.sent[i].to)
        /\ q.posts <= Cardinality(ValidFetched(q))
        /\ (IsDone(r) /\ q.response.status = 500) => q.gateway_failed
        /\ (IsDone(r) /\ ~q.gateway_failed /\ IdempotencyKey_try_from(q.idempotency_key))
           => q.response.status = 303
        /\ q.saved
           => /\ Len(q.sent) = Cardinality(ValidFetched(q))
              /\ {q.sent[i].to : i \in 1..Len(q.sent)} =
                     {q.subscribers[i] : i \in ValidFetched(q)}
              /\ q.response.status = 303
              /\ SavedFor(idempotency, q) # {}

\* A request that fetched the invalid address beside a valid one has sent
\* to the valid one and saved the 303.
C31_Witness ==
    \E r \in Publishes :
        LET q == requests[r] IN
        /\ \E i \in 1..Len(q.subscribers) : q.subscribers[i] = EmailLegacy
        /\ q.subscribers[1] = EmailLegacy
        /\ q.saved /\ IsDone(r)
        /\ Len(q.sent) = 1 /\ q.sent[1].to = EmailA
        /\ q.response.status = 303

-----------------------------------------------------------------------------
(* Progress of the publish requests *)

\* Request r was turned back by the reservation of a request in flight.
Blocked(r) ==
    /\ r \in Publishes
    /\ requests[r].pc = "try_processing"
    /\ TryProcessingWaits(idempotency, r, requests[r].user_id, requests[r].idempotency_key)

\* A request blocked on a reservation can go on as soon as the holder of
\* the reservation has returned, having committed or rolled back.
C32_Step ==
    \A r, h \in Publishes :
        (Blocked(r) /\ h # r /\ SameKey(h, r) /\ Returns(h))
        => /\ ~TryProcessingWaits(idempotency', r, requests[r].user_id,
                                  requests[r].idempotency_key)
           /\ requests'[r] = requests[r]

\* C32: under fair scheduling, with an email gateway that answers or times
\* out on every POST, every publish request that has arrived eventually
\* returns a response; a request blocked on the reservation of a concurrent
\* request with its key resumes once that request commits or aborts, so no
\* set of publish requests waits forever.
C32_EveryPublishReturns ==
    /\ [][C32_Step]_vars
    /\ \A r \in 1..MaxPublish :
          (r \in DOMAIN requests) ~> (r \in DOMAIN requests /\ requests[r].pc = "done")

\* A request that waited for the holder of its key has returned, and so has
\* the holder.
C32_Witness ==
    \E r \in Publishes :
        /\ requests[r].waited_on # 0
        /\ IsDone(r) /\ IsDone(requests[r].waited_on)
        /\ requests[r].response.status = 303

-----------------------------------------------------------------------------
(* What a request sees of the reservation of another *)

\* The rows of idempotency that request r can observe: the committed ones
\* and its own.
Observable(r) == {row \in idempotency : row.xmin \in {0, r}}

\* A row without a response is the uncommitted reservation of a request in
\* flight that has passed try_processing; every committed row holds a
\* response.
C33_Inv ==
    \A row \in idempotency :
        /\ row.xmin = 0 => row.response_status_code # 0
        /\ row.response_status_code = 0
           => /\ row.xmin \in Publishes
              /\ requests[row.xmin].pc \in {"dispatch", "save_response"}

\* A request that leaves try_processing with a row of its key in sight
\* replays the response of that row; it never answers 500 for a row without
\* a response.
C33_Step ==
    \A r \in Publishes :
        Leaves(r, "try_processing")
        => LET rows == {row \in Observable(r) :
                           /\ row.user_id = requests[r].user_id
                           /\ row.idempotency_key = requests[r].idempotency_key}
           IN  IF rows = {}
               THEN requests'[r].pc \in {"dispatch", "save_response"}
               ELSE /\ requests'[r].pc = "done"
                    /\ \E row \in rows :
                          /\ row.response_status_code # 0
                          /\ requests'[r].response.status = row.response_status_code
                          /\ requests'[r].response.headers = row.response_headers

\* C33: an idempotency row that a request other than its reserver can
\* observe has a saved response: a request whose reservation conflicts with
\* an existing row finds a response to replay and never a placeholder, also
\* after an earlier attempt with the same key failed before save_response.
C33_ObservableRowHasResponse == [](C33_Inv) /\ [][C33_Step]_vars

\* An attempt failed at a send; another request with the same key has
\* reserved the key itself and saved, and the row of the key holds the
\* response.
C33_Witness ==
    \E r1, r2 \in Publishes :
        /\ r1 # r2 /\ SameKey(r1, r2)
        /\ IsDone(r1) /\ requests[r1].gateway_failed /\ requests[r1].response.status = 500
        /\ requests[r2].saved
        /\ \A row \in RowsOfKey(idempotency, requests[r2]) :
              row.xmin = 0 /\ row.response_status_code = 303
        /\ RowsOfKey(idempotency, requests[r2]) # {}

-----------------------------------------------------------------------------
(* Requests that run into each other (SpecSubscribersRaces) *)

\* The token rows of subscriber `id`, those of transactions in flight too.
AllTokensOf(id) == {row \in subscription_tokens : row.subscriber_id = id}

\* Subscribe request r2 waited at its upsert for subscribe request r1, which
\* was inserting the row of their email; both have returned 200.
Raced(r1, r2) ==
    /\ r1 \in Subscribes /\ r2 \in Subscribes
    /\ requests[r1].email = requests[r2].email
    /\ requests[r2].waited_on = r1
    /\ requests[r1].subscription_state = "Inserted"
    /\ IsDone(r1) /\ requests[r1].response.status = 200
    /\ IsDone(r2) /\ requests[r2].response.status = 200

\* C34: when two subscribe requests for an email that is not stored run
\* concurrently and both complete, one has observed Inserted and the other,
\* having waited for the first to commit, Pending with the same subscriber
\* id; it has mailed the same token; there is one subscriber row for the
\* email and one token row for the subscriber (none once a confirm request
\* has redeemed the token); no subscribe request fails but on a failed send.
C34_ConcurrentSubscribes ==
    /\ \A row1, row2 \in subscriptions : row1.email = row2.email => row1 = row2
    /\ \A r \in Subscribes :
          (IsDone(r) /\ requests[r].response.status = 500) => requests[r].gateway_failed
    /\ \A r1, r2 \in Reqs :
          Raced(r1, r2)
          => LET q1 == requests[r1]
                 q2 == requests[r2]
             IN  /\ q2.subscription_state = "Pending"
                 /\ q2.subscriber_id = q1.subscriber_id
                 /\ q2.subscription_token = q1.subscription_token
                 /\ q2.sent = q1.sent /\ Len(q1.sent) = 1
                 /\ Cardinality({row \in subscriptions : row.email = q1.email}) = 1
                 /\ \A row \in AllTokensOf(q1.subscriber_id) :
                        row.subscription_token = q1.subscription_token
                 /\ Cardinality(AllTokensOf(q1.subscriber_id)) =
                        (IF Redeemed(q1) = {} THEN 1 ELSE 0)

\* Two subscribe requests for the same new email have raced and completed,
\* and the token is still there.
C34_Witness ==
    \E r1, r2 \in Reqs :
        /\ Raced(r1, r2)
        /\ Cardinality(AllTokensOf(requests[r1].subscriber_id)) = 1
        /\ \A row \in subscriptions :
              row.email = requests[r1].email
              => row.xmin = 0 /\ row.status = "pending_confirmation"

-----------------------------------------------------------------------------
(* Subscribing again while the confirmation is on its way *)

\* Subscribe request r, which observed Pending, and confirm request c for
\* the same subscriber: c has deleted the token row of the subscriber.
Crossed(r, c) ==
    /\ r \in Resubscribes /\ c \in Confirms
    /\ requests[c].subscriber_id = requests[r].subscriber_id

\* The token lookup of a subscribe request that observed Pending finds
\* exactly one row, also while a confirm request in flight has deleted it.
C35_Step ==
    \A r \in Subscribes :
        Leaves(r, "get_token")
        => /\ Cardinality(get_subscriber_confirmation_token(
                  subscription_tokens, r, requests[r].subscriber_id)) = 1
           /\ requests'[r].pc = "send"
           /\ requests'[r].subscription_token \in
                  {row.subscription_token : row \in TokensOf(requests[r].subscriber_id)}

\* What is committed of a subscriber a subscribe request and a confirm
\* request have both worked on is confirmed without a token row, or pending
\* with one; once both have returned, with 200 from the confirm request, it
\* is confirmed without a token row.
C35_Inv ==
    \A r, c \in Reqs :
        Crossed(r, c)
        => LET id == requests[r].subscriber_id
               rows == {row \in Committed(subscriptions) : row.id = id}
           IN  /\ Cardinality(rows) = 1
               /\ \A row \in rows :
                     \/ row.status = "confirmed" /\ TokensOf(id) = {}
                     \/ row.status = "pending_confirmation" /\ Cardinality(TokensOf(id)) = 1
               /\ (IsDone(r) /\ IsDone(c) /\ requests[c].response.status = 200)
                  => \A row \in rows :
                        /\ row.status = "confirmed" /\ row.lock = 0
                        /\ AllTokensOf(id) = {}
               /\ (IsDone(r) /\ requests[r].response.status = 500)
                  => requests[r].gateway_failed

\* C35: under any interleaving of a subscribe request that observes Pending
\* with a concurrent confirm request for the same subscriber, the token
\* lookup of the subscribe request finds exactly one token row, and the
\* committed state ends confirmed with no token row or pending with exactly
\* one.
C35_ResubscribeMeetsConfirm == [](C35_Inv) /\ [][C35_Step]_vars

\* The confirm request waited for the subscribe request that held the row
\* of the subscriber; both have returned 200, the subscribe request having
\* mailed the token the confirm request redeemed.
C35_Witness ==
    \E r, c \in Reqs :
        /\ Crossed(r, c)
        /\ requests[c].waited_on = r
        /\ IsDone(r) /\ requests[r].response.status = 200
        /\ IsDone(c) /\ requests[c].response.status = 200
        /\ requests[r].subscription_token = requests[c].subscription_token
        /\ Len(requests[r].sent) = 1

-----------------------------------------------------------------------------
(* Two confirmations of one token *)

\* Confirm request c2 waited at its DELETE for confirm request c1, which had
\* deleted the row of their token; both have returned.
RacedConfirms(c1, c2) ==
    /\ c1 \in Confirms /\ c2 \in Confirms /\ c1 # c2
    /\ requests[c1].subscription_token = requests[c2].subscription_token
    /\ requests[c2].waited_on = c1
    /\ requests[c2].subscriber_id = 0
    /\ IsDone(c1) /\ IsDone(c2)

\* C36: when two confirm requests carrying the same stored token run
\* concurrently, exactly one returns 200 and the other 401, and the
\* subscriber ends confirmed with no token row.
C36_ConcurrentConfirms ==
    /\ \A c1, c2 \in Confirms :
          (/\ c1 # c2
           /\ requests[c1].subscription_token = requests[c2].subscription_token
           /\ IsDone(c1) /\ requests[c1].response.status = 200
           /\ IsDone(c2))
          => requests[c2].response.status = 401
    /\ \A c1, c2 \in Reqs :
          RacedConfirms(c1, c2)
          => LET id == requests[c1].subscriber_id IN
             /\ requests[c1].response.status = 200
             /\ requests[c2].response.status = 401
             /\ \E row \in subscriptions : row.id = id
             /\ \A row \in subscriptions :
                    row.id = id => row.xmin = 0 /\ row.status = "confirmed"
             /\ AllTokensOf(id) = {}
             /\ Stored(subscription_tokens, requests[c1].subscription_token) = {}

\* Two confirm requests with the token of the pending subscriber have
\* raced: one 200, one 401.
C36_Witness ==
    \E c1, c2 \in Reqs :
        /\ RacedConfirms(c1, c2)
        /\ requests[c1].response.status = 200
        /\ requests[c2].response.status = 401
        /\ \E row \in subscriptions :
              row.id = requests[c1].subscriber_id /\ row.status = "confirmed"

-----------------------------------------------------------------------------
(* The token of a delivered confirmation link *)

\* C37: once a subscribe request that caused a confirmation email to be
\* delivered has finished, with any outcome, the token of the link in the
\* email is stored for the subscriber, or the subscriber is confirmed: no
\* delivered link carries a token that was never persisted.
C37_DeliveredTokenIsStored ==
    \A r \in Subscribes :
        (IsDone(r) /\ requests[r].sent # <<>>)
        => \A i \in 1..Len(requests[r].sent) :
               LET q == requests[r]
                   subscription_token == q.sent[i].link.subscription_token
               IN  \/ \E row \in Committed(subscription_tokens) :
                         /\ row.subscription_token = subscription_token
                         /\ row.subscriber_id = q.subscriber_id
                   \/ \E row \in Committed(subscriptions) :
                         /\ row.email = q.email
                         /\ row.status = "confirmed"

-----------------------------------------------------------------------------
(* The stored row of a subscriber who subscribes again *)

\* What a subscriber row holds for its readers.
Stable(row) ==
    [id |-> row.id, email |-> row.email, name |-> row.name,
     subscribed_at |-> row.subscribed_at, status |-> row.status]

\* C38: a subscribe request for an email that already has a subscriber row,
\* pending or confirmed, leaves the id, name, subscribed_at and status of
\* that row unchanged, also when the submitted name differs from the stored
\* one: no step of a subscribe request changes a committed row.
C38_Step ==
    \A r \in Subscribes :
        requests'[r] # requests[r]
        => /\ \A row \in Committed(subscriptions) :
                 \E next \in Committed(subscriptions') : Stable(next) = Stable(row)
           /\ \A next \in subscriptions' :
                 next.email = requests[r].email
                 => \/ \E row \in subscriptions : Stable(row) = Stable(next)
                    \/ /\ requests'[r].subscription_state = "Inserted"
                       /\ next.id = requests'[r].subscriber_id

C38_ResubscribeKeepsRow == [][C38_Step]_vars

\* A subscribe request with another name than the stored one has returned
\* 200 for a pending subscriber, whose row is as it was stored.
C38_Witness ==
    \E r \in Subscribes :
        /\ IsDone(r) /\ requests[r].response.status = 200
        /\ requests[r].subscription_state = "Pending"
        /\ \E row \in Committed(subscriptions) :
              /\ row.email = requests[r].email
              /\ row.id = requests[r].subscriber_id
              /\ row.name = NameStored /\ row.name # requests[r].name
              /\ row.subscribed_at = 0
              /\ row.status = "pending_confirmation"

-----------------------------------------------------------------------------
(* Generated values and the parsers that gate them (SpecGenerate) *)

\* C39: every value the system generates passes the parser that later gates
\* it: generate_subscription_token and generate_invitation_token yield 30
\* ASCII alphanumerics, accepted by the token parsers, also when read back
\* from the link built with them, and generate_validation_code yields 6
\* ASCII digits, accepted by ValidationCode::parse; none would be rejected
\* with 400.
C39_GeneratedValuesParse ==
    \A i \in 1..Len(calls) :
        LET out == calls[i].output IN
        /\ calls[i].fn = "generate_subscription_token"
           => /\ SubscriptionToken_parse(out)
              /\ SubscriptionToken_parse(build_confirmation_link(out).subscription_token)
              /\ Len(out) = 30
              /\ \A k \in 1..Len(out) : is_ascii_alphanumeric(out[k])
        /\ calls[i].fn = "generate_invitation_token"
           => /\ InvitationToken_parse(out) /\ Token_parse(out)
              /\ InvitationToken_parse(build_invitation_link(out).invitation_token)
              /\ Len(out) = 30
              /\ \A k \in 1..Len(out) : is_ascii_alphanumeric(out[k])
        /\ calls[i].fn = "generate_validation_code"
           => /\ ValidationCode_parse(out)
              /\ Len(out) = 6
              /\ \A k \in 1..Len(out) : is_ascii_digit(out[k])

\* A token of each kind and a code have been generated, the code from the
\* digit 9, a token from an upper-case letter.
C39_Witness ==
    /\ \E i \in 1..Len(calls) :
          calls[i].fn = "generate_validation_code" /\ calls[i].output[1] = "9"
    /\ \E i \in 1..Len(calls) :
          /\ calls[i].fn \in {"generate_subscription_token", "generate_invitation_token"}
          /\ calls[i].output[1] = "Z"

=============================================================================
